---------------------------- MODULE Spec2Model ----------------------------
(***************************************************************************)
(* Model of the filename / identity reconciliation engine of the Zotify    *)
(* music manager: utils.py (sanitize_filename, get_possible_filenames),    *)
(* song_ids_manager.py (the .song_ids ledger operations) and the file      *)
(* cleanup steps of playlist_extractor.py.                                 *)
(*                                                                         *)
(* Strings are sequences of characters; a character is a one-element       *)
(* string token.  Regular expressions of the source are operators that     *)
(* compute the match the Python `re` engine returns.                       *)
(***************************************************************************)
EXTENDS Integers, Sequences, FiniteSets, TLC

VARIABLES
    sIn,        \* sanitize specification: the raw input string
    sOut,       \* sanitize specification: results of successive applications
    ledger,     \* the lines of the .song_ids file of the playlist directory
    disk,       \* the directory: file name -> content identity
    playlist,   \* playlist_tracks: sequence of [id, artist, title]
    now,        \* the wall clock, in seconds
    pc,         \* position of the running script
    run,        \* number of the reconciliation pass being run
    stats,      \* counts returned by the engine calls of the current pass
    pre,        \* ledger and directory as they were before the last call
    snap,       \* the ledger file at the end of the first pass
    files_to_remove       \* the extractor's set of files that match no manifest entry

vars == <<sIn, sOut, ledger, disk, playlist, now, pc, run, stats, pre, snap, files_to_remove>>

-----------------------------------------------------------------------------
(* Characters and strings                                                  *)

CTRL == "\t"     \* a C0 control character (0x09)
SP == " "

\* Code points, for Python's string comparison.
Ord(c) ==
    CASE c = CTRL -> 9   [] c = " " -> 32  [] c = "!" -> 33  [] c = "\"" -> 34
      [] c = "#" -> 35   [] c = "," -> 44  [] c = "-" -> 45  [] c = "." -> 46
      [] c = "/" -> 47   [] c = "1" -> 49  [] c = "2" -> 50  [] c = "3" -> 51
      [] c = ":" -> 58   [] c = "<" -> 60  [] c = ">" -> 62  [] c = "?" -> 63
      [] c = "A" -> 65   [] c = "B" -> 66  [] c = "C" -> 67  [] c = "M" -> 77
      [] c = "N" -> 78   [] c = "O" -> 79  [] c = "P" -> 80  [] c = "T" -> 84
      [] c = "X" -> 88   [] c = "Y" -> 89  [] c = "_" -> 95  [] c = "a" -> 97
      [] c = "b" -> 98   [] c = "c" -> 99  [] c = "m" -> 109 [] c = "n" -> 110
      [] c = "o" -> 111  [] c = "p" -> 112 [] c = "t" -> 116 [] c = "x" -> 120
      [] c = "y" -> 121  [] c = "|" -> 124
      [] c = "e'" -> 233      \* U+00E9, e with acute, precomposed
      [] c = "E'" -> 201      \* U+00C9
      [] c = "e" -> 101  [] c = "E" -> 69
      [] c = "'" -> 769       \* U+0301, combining acute accent
      [] c = "U+0308" -> 776  \* combining diaeresis
      [] c = "U+038A" -> 906  \* Greek capital iota with tonos
      [] c = "U+0390" -> 912  \* Greek small iota with dialytika and tonos
      [] c = "U+0399" -> 921  \* Greek capital iota
      [] c = "U+03AA" -> 938  \* Greek capital iota with dialytika
      [] c = "U+03AF" -> 943  \* Greek small iota with tonos
      [] c = "U+03B9" -> 953  \* Greek small iota
      [] c = "U+03CA" -> 970  \* Greek small iota with dialytika
      [] OTHER -> 0

\* str.lower() / str.casefold() of one character.
Lower(c) ==
    CASE c = "A" -> "a" [] c = "B" -> "b" [] c = "C" -> "c" [] c = "M" -> "m"
      [] c = "N" -> "n" [] c = "O" -> "o" [] c = "P" -> "p" [] c = "T" -> "t"
      [] c = "X" -> "x" [] c = "Y" -> "y" [] c = "E" -> "e" [] c = "E'" -> "e'"
      [] c = "U+0399" -> "U+03B9" [] c = "U+03AA" -> "U+03CA"
      [] c = "U+038A" -> "U+03AF"
      [] OTHER -> c

\* str.casefold(): the full case folding of U+0390 is the three code points
\* U+03B9 U+0308 U+0301; every other character of the model folds to one
\* character.
RECURSIVE casefold(_)
casefold(s) ==
    IF s = <<>> THEN <<>>
    ELSE (IF Head(s) = "U+0390" THEN <<"U+03B9", "U+0308", "'">> ELSE <<Lower(Head(s))>>)
         \o casefold(Tail(s))

IsSpace(c) == c \in {SP, CTRL}
IsDigit(c) == c \in {"0", "1", "2", "3", "4", "5", "6", "7", "8", "9"}

\* str.strip(): drop leading and trailing whitespace.
RECURSIVE lstrip(_)
lstrip(s) == IF s # <<>> /\ IsSpace(Head(s)) THEN lstrip(Tail(s)) ELSE s

RECURSIVE rstrip(_)
rstrip(s) ==
    IF s # <<>> /\ IsSpace(s[Len(s)]) THEN rstrip(SubSeq(s, 1, Len(s) - 1)) ELSE s

strip(s) == rstrip(lstrip(s))

\* Python's < on strings: lexicographic by code point.
RECURSIVE StrLess(_, _)
StrLess(a, b) ==
    IF b = <<>> THEN FALSE
    ELSE IF a = <<>> THEN TRUE
    ELSE IF Head(a) = Head(b) THEN StrLess(Tail(a), Tail(b))
    ELSE Ord(Head(a)) < Ord(Head(b))

\* s.startswith(p), s.endswith(p)
StartsWith(s, p) == Len(s) >= Len(p) /\ SubSeq(s, 1, Len(p)) = p
EndsWith(s, p) == Len(s) >= Len(p) /\ SubSeq(s, Len(s) - Len(p) + 1, Len(s)) = p

\* The elements of a sequence.
Range(q) == {q[i] : i \in 1..Len(q)}

\* s.replace(a, b) for a single character a and a string b.
RECURSIVE ReplaceChar(_, _, _)
ReplaceChar(s, a, b) ==
    IF s = <<>> THEN <<>>
    ELSE (IF Head(s) = a THEN b ELSE <<Head(s)>>) \o ReplaceChar(Tail(s), a, b)

-----------------------------------------------------------------------------
(* utils.sanitize_filename                                                 *)

\* The character class [\/#:|_<>\0-\x1f?!] of the pattern.
InvalidChars == {"/", "#", ":", "|", "_", "<", ">", CTRL, "?", "!"}

\* AUX|COM[1-9]|CON|LPT[1-9]|NUL|PRN, matched with re.IGNORECASE.
ReservedNames ==
    {<<"a", "u", "x">>, <<"c", "o", "n">>, <<"n", "u", "l">>, <<"p", "r", "n">>}
    \cup {<<"c", "o", "m", d>> : d \in {"1", "2", "3", "4", "5", "6", "7", "8", "9"}}
    \cup {<<"l", "p", "t", d>> : d \in {"1", "2", "3", "4", "5", "6", "7", "8", "9"}}

\* Length of the match of ^(AUX|...|PRN)(?![^.]) at the start of s, 0 if none:
\* the name must be followed by a dot or by the end of the string.
ReservedPrefixLen(s) ==
    LET fits(n) == /\ Len(s) >= n
                   /\ casefold(SubSeq(s, 1, n)) \in ReservedNames
                   /\ (Len(s) = n \/ s[n + 1] = ".")
    IN  IF fits(3) THEN 3 ELSE IF fits(4) THEN 4 ELSE 0

SubInvalid(s) == [i \in 1..Len(s) |-> IF s[i] \in InvalidChars THEN "_" ELSE s[i]]

\* Mutation: the replacement string is dropped, so matches are deleted.
sanitize_filename_del(filename) ==
    LET n == IF filename # <<>> /\ Head(filename) \in InvalidChars
             THEN 0 ELSE ReservedPrefixLen(filename)
        rest == SubSeq(filename, n + 1, Len(filename))
    IN  SelectSeq(rest, LAMBDA c : c \notin InvalidChars)

\* re.sub(pattern, "_", filename): scanning from the left, each character of
\* the class becomes "_"; at position 0 a reserved device name becomes "_".
sanitize_filename(filename) ==
    LET n == IF filename # <<>> /\ Head(filename) \in InvalidChars
             THEN 0 ELSE ReservedPrefixLen(filename)
    IN  IF n > 0
        THEN <<"_">> \o SubInvalid(SubSeq(filename, n + 1, Len(filename)))
        ELSE SubInvalid(filename)

-----------------------------------------------------------------------------
(* song_ids_manager: names, keys and the regular expressions               *)

MP3 == <<".", "m", "p", "3">>
SEP == <<" ", "-", " ">>

\* f.lower().endswith(".mp3")
IsMp3Name(f) == EndsWith(casefold(f), MP3)

\* The primary composites of the characters of the model: <<starter, mark>>
\* and the character the pair composes to.
Composites ==
    (<<"e", "'">> :> "e'") @@ (<<"E", "'">> :> "E'")
    @@ (<<"U+0399", "'">> :> "U+038A") @@ (<<"U+03B9", "'">> :> "U+03AF")
    @@ (<<"U+0399", "U+0308">> :> "U+03AA") @@ (<<"U+03B9", "U+0308">> :> "U+03CA")
    @@ (<<"U+03CA", "'">> :> "U+0390")

\* unicodedata.normalize("NFC", s): a character and the combining mark that
\* follows it are composed when the pair has a composite, and the composite
\* is composed again with the next mark; the marks of the model have one
\* combining class, so a mark left in place blocks the marks after it.
RECURSIVE _nfc(_)
_nfc(s) ==
    IF s = <<>> THEN <<>>
    ELSE IF Len(s) >= 2 /\ <<s[1], s[2]>> \in DOMAIN Composites
    THEN _nfc(<<Composites[<<s[1], s[2]>>]>> \o SubSeq(s, 3, Len(s)))
    ELSE <<Head(s)>> \o _nfc(Tail(s))

_norm_key(artist, title) ==
    <<casefold(_nfc(strip(artist))), casefold(_nfc(strip(title)))>>

_expected_filename(artist, title) == artist \o SEP \o title \o MP3

\* Number of whitespace characters of f from position i on.
RECURSIVE WsRun(_, _)
WsRun(f, i) == IF i <= Len(f) /\ IsSpace(f[i]) THEN 1 + WsRun(f, i + 1) ELSE 0

\* The tail (?:_\d+)?\.mp3$ (IGNORECASE) matches the whole of r.
TailMatches(r) ==
    \/ casefold(r) = MP3
    \/ /\ Len(r) >= 6
       /\ r[1] = "_"
       /\ \A i \in 2..(Len(r) - 4) : IsDigit(r[i])
       /\ casefold(SubSeq(r, Len(r) - 3, Len(r))) = MP3

\* The tail _\d+\.mp3$ matches the whole of r.
SuffixTailMatches(r) == Len(r) >= 6 /\ r[1] = "_" /\ TailMatches(r)

\* The digits of a matched tail ("" when the optional group did not take part).
TailDigits(r) == IF Len(r) >= 6 THEN SubSeq(r, 2, Len(r) - 4) ELSE <<>>

Min(S) == CHOOSE x \in S : \A y \in S : x <= y
Max(S) == CHOOSE x \in S : \A y \in S : x >= y

NoMatch == [ok |-> FALSE, artist |-> <<>>, title |-> <<>>, suffix |-> <<>>]

\* BASE_RE.match(f) for
\*   ^(?P<artist>.+?)\s*-\s*(?P<title>.+?)(?:_(?P<suffix>\d+))?\.mp3$
\* The backtracking engine returns the match with the shortest artist, then
\* the longest second whitespace run, then the shortest title.  The first \s*
\* always takes the whole whitespace run, as only "-" may follow it.
BASE_RE(f) ==
    LET n == Len(f)
        \* the position of the "-" when the artist has a characters
        dash(a) == a + WsRun(f, a + 1) + 1
        \* the title lengths that match when the title starts after position p
        titles(p) == {t \in 1..n : p + t <= n /\ TailMatches(SubSeq(f, p + t + 1, n))}
        \* the lengths of the second whitespace run that match, the "-" being at d
        gaps(d) == {w \in 0..WsRun(f, d + 1) : titles(d + w) # {}}
        at_dash(d) == d <= n /\ f[d] = "-" /\ gaps(d) # {}
        groups(a, s, t) ==
            [ok |-> TRUE,
             artist |-> SubSeq(f, 1, a),
             title |-> SubSeq(f, s, s + t - 1),
             suffix |-> TailDigits(SubSeq(f, s + t, n))]
        with_gap(a, p) == groups(a, p + 1, Min(titles(p)))
        with_dash(a, d) == with_gap(a, d + Max(gaps(d)))
        shortest(arts) == IF arts = {} THEN NoMatch ELSE with_dash(Min(arts), dash(Min(arts)))
    IN  shortest({a \in 1..n : at_dash(dash(a))})

\* f"{_nfc(m.group('artist'))} - {_nfc(m.group('title'))}"
BaseOfMatch(m) == _nfc(m.artist) \o SEP \o _nfc(m.title)

\* _SUFFIX_RE.match(name) for ^(?P<base>.+?)(?P<suffix>_\d+)?\.mp3$ :
\* the shortest base after which the tail matches.
_SUFFIX_RE(name) ==
    LET n == Len(name)
        bs == {b \in 1..n : TailMatches(SubSeq(name, b + 1, n))}
    IN  IF bs = {} THEN [ok |-> FALSE, base |-> <<>>]
        ELSE [ok |-> TRUE, base |-> SubSeq(name, 1, Min(bs))]

\* SUFFIX_RE.match(name) for ^(?P<base>.+?)_(?P<n>\d+)\.mp3$
SUFFIX_RE(name) ==
    LET n == Len(name)
        bs == {b \in 1..n : SuffixTailMatches(SubSeq(name, b + 1, n))}
    IN  IF bs = {} THEN [ok |-> FALSE, base |-> <<>>]
        ELSE [ok |-> TRUE, base |-> SubSeq(name, 1, Min(bs))]

_filename_needs_fix(filename, artist, title) ==
    \/ filename = <<>>
    \/ ~_SUFFIX_RE(filename).ok
    \/ casefold(_nfc(_SUFFIX_RE(filename).base))
         # casefold(_nfc(artist \o SEP \o title))

-----------------------------------------------------------------------------
(* The names of the model                                                  *)

Artist_A == <<"A">>
Artist_a == <<"a">>
Artist_X == <<"X">>
Title_T == <<"T">>
Title_t == <<"t">>
Title_Y == <<"Y">>

File_AT == <<"A", " ", "-", " ", "T", ".", "m", "p", "3">>
File_AT1 == <<"A", " ", "-", " ", "T", "_", "1", ".", "m", "p", "3">>
File_AT2 == <<"A", " ", "-", " ", "T", "_", "2", ".", "m", "p", "3">>
File_XY == <<"X", " ", "-", " ", "Y", ".", "m", "p", "3">>

\* Files the directory may hold.
FilePool == {File_AT, File_AT1, File_AT2, File_XY}

\* Every file name the directory can come to hold, and every canonical name.
Artist_AB == <<"A", "-", "B">>
Title_Tq == <<"T", "?">>
File_at == <<"a", " ", "-", " ", "t", ".", "m", "p", "3">>
File_ABT == <<"A", "-", "B", " ", "-", " ", "T", ".", "m", "p", "3">>
File_ABT1 == <<"A", "-", "B", " ", "-", " ", "T", "_", "1", ".", "m", "p", "3">>
File_ATu == <<"A", " ", "-", " ", "T", "_", ".", "m", "p", "3">>
File_ATq == <<"A", " ", "-", " ", "T", "?", ".", "m", "p", "3">>
File_ATq1 == <<"A", " ", "-", " ", "T", "?", "_", "1", ".", "m", "p", "3">>
File_ATu1 == <<"A", " ", "-", " ", "T", "_", "_", "1", ".", "m", "p", "3">>

\* The files a playlist directory may hold when the extractor starts.
RunFilePool ==
    {File_AT, File_AT1, File_AT2, File_at, File_ABT, File_ABT1, File_ATq1, File_ATu1}

KnownNames == FilePool \cup RunFilePool \cup {File_ATu, File_ATq}

\* BASE_RE.match on the known names, computed once.
BaseMatches == [f \in KnownNames |-> BASE_RE(f)]

BaseOf(f) == IF f \in KnownNames THEN BaseMatches[f] ELSE BASE_RE(f)

-----------------------------------------------------------------------------
(* The .song_ids ledger                                                    *)
(*                                                                         *)
(* A line of the file is [wf, id, ts, artist, title, fname]; wf is FALSE   *)
(* for a line that does not split into five tab-separated fields.  A       *)
(* timestamp is [str, dt]: str is the rank of the text in string order,    *)
(* dt what datetime.strptime makes of it (0 is datetime.min).              *)

\* time.strftime("%Y-%m-%d %H:%M:%S") at clock value t.
strftime(t) == [str |-> t, dt |-> t]

Line(id, ts, artist, title, fname) ==
    [wf |-> TRUE, id |-> id, ts |-> ts, artist |-> artist, title |-> title,
     fname |-> fname]

\* The value of the ledger when the directory holds no .song_ids file.
NoFile == <<[wf |-> FALSE, id |-> "no .song_ids file", ts |-> strftime(0),
             artist |-> <<>>, title |-> <<>>, fname |-> <<>>]>>

\* os.path.isfile(hidden_file_path)
os_path_isfile(file) == file # NoFile

\* open(path, "r") raises FileNotFoundError when the file does not exist.
open_read_raises(file) == file = NoFile

\* sid_path.touch(): the file is created empty when it does not exist.
touch(file) == IF file = NoFile THEN <<>> ELSE file

\* Mutation: the file is opened without the os.path.isfile test.
_read_song_ids_rows_raises_unguarded(file) == open_read_raises(file)

\* _read_song_ids_rows raises: it opens the file only when it is a file.
_read_song_ids_rows_raises(file) == os_path_isfile(file) /\ open_read_raises(file)

\* _read_song_ids_rows: no rows when the file does not exist; lines without
\* five fields are skipped.
_read_song_ids_rows(file) ==
    IF ~os_path_isfile(file) THEN <<>> ELSE SelectSeq(file, LAMBDA l : l.wf)

\* Mutation: the sort key is the artist and the title as written.
KeyLess_cased(r, q) ==
    \/ StrLess(r.artist, q.artist)
    \/ r.artist = q.artist /\ StrLess(r.title, q.title)

\* The sort key of every rewrite: (artist.casefold(), title.casefold()).
KeyLess(r, q) ==
    LET ra == casefold(r.artist)
        qa == casefold(q.artist)
    IN  \/ StrLess(ra, qa)
        \/ ra = qa /\ StrLess(casefold(r.title), casefold(q.title))

\* list.sort / sorted with that key: a stable sort.
SortByArtistTitle(rows) ==
    LET n == Len(rows)
        rank(i) == Cardinality({j \in 1..n :
                        \/ KeyLess(rows[j], rows[i])
                        \/ j < i /\ ~KeyLess(rows[i], rows[j])}) + 1
    IN  [k \in 1..n |-> rows[CHOOSE i \in 1..n : rank(i) = k]]

\* The .mp3 entries of os.listdir(playlist_dir).
Mp3Files(d) == {f \in DOMAIN d : IsMp3Name(f)}

\* r.get("filename") or f"{artist} - {song}.mp3"
RowFilename(r) == IF r.fname # <<>> THEN r.fname ELSE r.artist \o SEP \o r.title \o MP3

\* Mutation: a row is judged by its filename field alone.
cleanup_keeps_field(r, d) == r.fname \in Mp3Files(d)

\* The test of cleanup_song_ids_orphans that keeps a row.
cleanup_keeps(r, d) == RowFilename(r) \in Mp3Files(d)

\* cleanup_song_ids_orphans: the rewritten file and the returned counts.
cleanup_song_ids_orphans(file, d) ==
    LET rows == _read_song_ids_rows(file)
        kept_rows == SelectSeq(rows, LAMBDA r : cleanup_keeps(r, d))
        new_lines == [i \in 1..Len(kept_rows) |->
                        [kept_rows[i] EXCEPT !.fname = RowFilename(kept_rows[i])]]
    IN  [file |-> SortByArtistTitle(new_lines),
         kept |-> Len(kept_rows),
         dropped_orphans |-> Len(rows) - Len(kept_rows)]

-----------------------------------------------------------------------------
(* reconcile_song_ids_flip_ids                                             *)

RowKey(r) == _norm_key(r.artist, r.title)

\* The elements of a set of numbers as an ascending sequence.
Ascending(S) ==
    [k \in 1..Cardinality(S) |-> CHOOSE i \in S : Cardinality({j \in S : j < i}) = k - 1]

\* The dict `pl` as the sequence of its items: a key keeps the position of
\* its first insertion and holds the value of its last one.
PlaylistView(tracks) ==
    LET key(i) == _norm_key(tracks[i].artist, tracks[i].title)
        first == Ascending({i \in 1..Len(tracks) : \A j \in 1..(i - 1) : key(j) # key(i)})
        last(k) == Max({i \in 1..Len(tracks) : key(i) = k})
        item(t, k) == [id |-> t.id, artist |-> t.artist, title |-> t.title,
                       fname |-> t.artist \o SEP \o t.title \o MP3,
                       key |-> k]
        value(k) == item(tracks[last(k)], k)
    IN  [n \in 1..Len(first) |-> value(key(first[n]))]

\* pl.get(key, {}).get("id"); "" stands for None.
WantedId(pl, k) ==
    IF \E n \in 1..Len(pl) : pl[n].key = k
    THEN pl[CHOOSE n \in 1..Len(pl) : pl[n].key = k].id
    ELSE ""

\* (Path(playlist_dir) / fname).is_file(); a name holding "/" is a path into
\* a subdirectory, and the directory has none.
is_file(d, fname) == fname \in DOMAIN d /\ \A i \in 1..Len(fname) : fname[i] # "/"

\* by_fname = {r["fname"]: r for r in rows}: the last row of each name.
IndexByFname(rows) ==
    [f \in {rows[i].fname : i \in 1..Len(rows)} |->
        Max({i \in 1..Len(rows) : rows[i].fname = f})]

\* by_key: for each key the first row that carries the greatest timestamp
\* text (a later row replaces the entry only when strictly greater).
IndexByKey(rows) ==
    [k \in {RowKey(rows[i]) : i \in 1..Len(rows)} |->
        Min({i \in 1..Len(rows) :
                /\ RowKey(rows[i]) = k
                /\ \A j \in 1..Len(rows) :
                      RowKey(rows[j]) = k => rows[j].ts.str <= rows[i].ts.str})]

\* Mutation: a matched row is flipped whenever its id differs.
flip_wanted_any(row, cur) == row.id # cur.id

\* The condition of the flip branch.
flip_wanted(row, cur) ==
    row.id # cur.id /\ row.artist = cur.artist /\ row.title = cur.title

\* One iteration of `for key, cur in pl.items()`.
ReconcileStep(st, cur, d, t) ==
    IF ~is_file(d, cur.fname) THEN st
    ELSE LET ri == IF cur.fname \in DOMAIN st.by_fname THEN st.by_fname[cur.fname]
                   ELSE IF cur.key \in DOMAIN st.by_key THEN st.by_key[cur.key]
                   ELSE 0
         IN  IF ri = 0
             THEN LET new == [id |-> cur.id, ts |-> strftime(t), artist |-> cur.artist,
                              title |-> cur.title, fname |-> cur.fname, wf |-> TRUE]
                      n == Len(st.rows) + 1
                  IN  [st EXCEPT !.rows = Append(st.rows, new),
                                 !.by_fname = (cur.fname :> n) @@ st.by_fname,
                                 !.by_key = (cur.key :> n) @@ st.by_key,
                                 !.added = st.added + 1]
             ELSE IF flip_wanted(st.rows[ri], cur)
             THEN [st EXCEPT !.rows[ri].id = cur.id,
                             !.rows[ri].ts = strftime(t),
                             !.by_fname = (cur.fname :> ri) @@ st.by_fname,
                             !.by_key = (cur.key :> ri) @@ st.by_key,
                             !.flipped = st.flipped + 1]
             ELSE st

RECURSIVE ReconcileLoop(_, _, _, _, _)
ReconcileLoop(st, pl, n, d, t) ==
    IF n > Len(pl) THEN st
    ELSE ReconcileLoop(ReconcileStep(st, pl[n], d, t), pl, n + 1, d, t)

\* The row kept of prev and i, two rows of one filename: the row with the
\* wanted id when the kept one lacks it, else max([prev, r], key=ts), which
\* returns prev unless r is strictly newer.
dedup_keep(rows, prev, i, want) ==
    IF want # "" /\ rows[i].id = want /\ rows[prev].id # want THEN i
    ELSE IF rows[prev].ts.str < rows[i].ts.str THEN i
    ELSE prev

\* Mutation: the rows are grouped by filename and id.
dedup_group_by_id(r) == <<r.fname, r.id>>

\* k = r["fname"], the key of final_by_fname.
dedup_group(r) == r.fname

\* The loop `for r in rows` that fills final_by_fname; order holds the keys
\* of the dict in insertion order.
RECURSIVE DedupLoop(_, _, _, _)
DedupLoop(rows, pl, i, acc) ==
    IF i > Len(rows) THEN acc
    ELSE LET k == dedup_group(rows[i])
         IN  IF k \notin DOMAIN acc.final
             THEN DedupLoop(rows, pl, i + 1,
                    [acc EXCEPT !.final = (k :> i) @@ acc.final,
                                !.order = Append(acc.order, k)])
             ELSE LET prev == acc.final[k]
                      keep == dedup_keep(rows, prev, i, WantedId(pl, RowKey(rows[i])))
                  IN  DedupLoop(rows, pl, i + 1,
                        [acc EXCEPT !.final = (k :> keep) @@ acc.final,
                                    !.deduped = acc.deduped + (IF keep # prev THEN 1 ELSE 0)])

EmptyMap == [x \in {} |-> 0]

\* The rows and counters when the add / flip loop has ended.
reconcile_add_flip(file, d, tracks, t) ==
    LET rows == SelectSeq(touch(file), LAMBDA l : l.wf)
    IN  ReconcileLoop([rows |-> rows, by_fname |-> IndexByFname(rows),
                       by_key |-> IndexByKey(rows), added |-> 0, flipped |-> 0],
                      PlaylistView(tracks), 1, d, t)

\* reconcile_song_ids_flip_ids: the rewritten file and (added, flipped, deduped).
reconcile_song_ids_flip_ids(file, d, tracks, t) ==
    LET written(st, dd) ==
            [file |-> SortByArtistTitle([n \in 1..Len(dd.order) |-> st.rows[dd.final[dd.order[n]]]]),
             added |-> st.added, flipped |-> st.flipped, deduped |-> dd.deduped]
        dedup(st) ==
            written(st, DedupLoop(st.rows, PlaylistView(tracks), 1,
                                  [final |-> EmptyMap, order |-> <<>>, deduped |-> 0]))
    IN  dedup(reconcile_add_flip(file, d, tracks, t))

-----------------------------------------------------------------------------
(* The restricted (no-churn) update                                        *)

\* The orders in which a Python set of strings can be iterated: every order
\* is possible.
Enumerations(S) ==
    {e \in [1..Cardinality(S) -> S] : \A i, j \in 1..Cardinality(S) : i # j => e[i] # e[j]}

\* One enumeration of a set.
RECURSIVE AnyOrder(_)
AnyOrder(S) ==
    IF S = {} THEN <<>>
    ELSE LET x == CHOOSE y \in S : TRUE IN <<x>> \o AnyOrder(S \ {x})

build_existing_keys_set(d) ==
    {_norm_key(_nfc(BaseOf(f).artist), _nfc(BaseOf(f).title)) :
        f \in {g \in Mp3Files(d) : BaseOf(g).ok}}

\* The files of the directory whose BASE_RE base equals, up to case and
\* Unicode form, the base "artist - title".
FilesOfBase(d, artist, title) ==
    {f \in Mp3Files(d) : /\ BaseOf(f).ok
                         /\ casefold(_nfc(BaseOfMatch(BaseOf(f))))
                              = casefold(_nfc(artist \o SEP \o title))}

\* The functions that pick one member of every set of a family of sets.
RECURSIVE Choices(_)
Choices(groups) ==
    IF groups = {} THEN {[G \in {} |-> <<>>]}
    ELSE LET G == CHOOSE H \in groups : TRUE
         IN  {[H \in groups |-> IF H = G THEN f ELSE r[H]] : r \in Choices(groups \ {G}), f \in G}

\* os.listdir returns the entries in arbitrary order, so the first entry of
\* a listing that belongs to a group of files is any member of the group.
\* A listing is represented by the member it puts first in every group.
Listings(d) ==
    Choices({FilesOfBase(d, BaseOf(f).artist, BaseOf(f).title) :
                f \in {g \in Mp3Files(d) : BaseOf(g).ok}})

\* _find_existing_filename_for_base: the first entry of the listing whose
\* base equals the wanted base; <<>> stands for None.
_find_existing_filename_for_base(d, listing, artist, title) ==
    LET first_of(hits) == IF hits = {} THEN <<>> ELSE listing[hits]
    IN  first_of(FilesOfBase(d, artist, title))

\* Mutation: the rows of the ledger are not looked at.
have_row_for_key_none(file) == {}

\* The keys that have a complete row (artist, title and id all non-empty).
have_row_for_key(file) ==
    LET rows == _read_song_ids_rows(file)
    IN  {_norm_key(_nfc(rows[i].artist), _nfc(rows[i].title)) :
            i \in {j \in 1..Len(rows) : /\ _nfc(rows[j].artist) # <<>>
                                         /\ _nfc(rows[j].title) # <<>>
                                         /\ rows[j].id # ""}}

\* diff_song_ids_vs_playlist_existing_only
diff_song_ids_vs_playlist_existing_only(file, tracks, restrict_keys, t) ==
    LET pl_list == SelectSeq(tracks, LAMBDA x :
                       _nfc(x.artist) # <<>> /\ _nfc(x.title) # <<>> /\ x.id # "")
        have == have_row_for_key(file)
        wanted(k) == k \in restrict_keys /\ k \notin have
        proposals(pick) ==
            [n \in 1..Len(pick) |->
                [artist |-> _nfc(pick[n].artist), song |-> _nfc(pick[n].title),
                 old_id |-> "", new_id |-> pick[n].id, earliest_ts_s |-> strftime(t),
                 canonical_filename |-> _expected_filename(_nfc(pick[n].artist), _nfc(pick[n].title)),
                 reason |-> "new_existing_file"]]
    IN  proposals(SelectSeq(pl_list, LAMBDA x : wanted(_norm_key(_nfc(x.artist), _nfc(x.title)))))

\* The id written for an existing group whose key is in restrict_keys and in
\* the playlist: tid = t["id"].
apply_group_id(newest, track) == track.id

\* Mutation: a rewritten group takes the timestamp of its newest row.
apply_group_ts_newest(newest, earliest) == newest.ts

\* ts_s = earliest["ts_s"]: a rewritten group keeps its earliest timestamp.
apply_group_ts(newest, earliest) == earliest.ts

\* apply_song_ids_from_playlist_existing_only, for one listing of the
\* directory.
apply_song_ids_from_playlist_existing_only(file, d, listing, tracks, restrict_keys, t) ==
    LET in_pl(k) == \E i \in 1..Len(tracks) : _norm_key(tracks[i].artist, tracks[i].title) = k
        pl_map(k) == tracks[Max({i \in 1..Len(tracks) :
                                    _norm_key(tracks[i].artist, tracks[i].title) = k})]
        or_canonical(e, a, s) == IF e # <<>> THEN e ELSE a \o SEP \o s \o MP3
        on_disk(a, s) == or_canonical(_find_existing_filename_for_base(d, listing, a, s), a, s)
        \* the line of an existing group with key k, newest row nw, earliest row er
        group_line(k, nw, er) ==
            IF k \in restrict_keys /\ in_pl(k)
            THEN Line(apply_group_id(nw, pl_map(k)), apply_group_ts(nw, er),
                      nw.artist, nw.title, on_disk(nw.artist, nw.title))
            ELSE Line(nw.id, apply_group_ts(nw, er), nw.artist, nw.title, nw.fname)
        new_line(x) == Line(x.id, strftime(t), x.artist, x.title, on_disk(x.artist, x.title))
        new_lines(fresh) == [g \in 1..Len(fresh) |-> new_line(pl_map(fresh[g]))]
        rewrite(rows) ==
            LET n == Len(rows)
                grp(k) == {i \in 1..n : RowKey(rows[i]) = k}
                \* max / min by the parsed timestamp return the first extreme element
                newest_in(g) == rows[Min({i \in g : \A j \in g : rows[j].ts.dt <= rows[i].ts.dt})]
                earliest_in(g) == rows[Min({i \in g : \A j \in g : rows[j].ts.dt >= rows[i].ts.dt})]
                line_of(k, g) == group_line(k, newest_in(g), earliest_in(g))
                old_lines(firsts) ==
                    [g \in 1..Len(firsts) |-> line_of(RowKey(rows[firsts[g]]),
                                                     grp(RowKey(rows[firsts[g]])))]
                seen == {RowKey(rows[i]) : i \in 1..n}
            IN  old_lines(Ascending({i \in 1..n :
                              \A j \in 1..(i - 1) : RowKey(rows[j]) # RowKey(rows[i])}))
                \* `for k in restrict_keys`: the order of the set does not reach the
                \* file, the appended lines have pairwise different sort keys
                \o new_lines(AnyOrder({k \in restrict_keys : k \notin seen /\ in_pl(k)}))
    IN  SortByArtistTitle(rewrite(_read_song_ids_rows(file)))

\* maybe_update_song_ids_from_playlist_existing_only: the files it may leave,
\* one for every listing order of the directory.
maybe_update_song_ids_from_playlist_existing_only(file, d, tracks, restrict_keys, t) ==
    IF diff_song_ids_vs_playlist_existing_only(file, tracks, restrict_keys, t) = <<>>
    THEN {file}
    ELSE {apply_song_ids_from_playlist_existing_only(file, d, listing, tracks, restrict_keys, t) :
            listing \in Listings(d)}

-----------------------------------------------------------------------------
(* rename_single_variant_to_canonical                                      *)

\* os.rename(src, dst) inside try/except: a missing source raises and nothing
\* changes; an existing destination is replaced.
os_rename(d, src, dst) ==
    IF src \notin DOMAIN d THEN d
    ELSE [f \in (DOMAIN d \ {src}) \cup {dst} |-> IF f = dst THEN d[src] ELSE d[f]]

\* The canonical names the playlist implies.
ExpectedCanon(tracks) ==
    {_nfc(tracks[i].artist) \o SEP \o _nfc(tracks[i].title) \o MP3 : i \in 1..Len(tracks)}

\* Mutation: only the files with a numbered suffix are indexed.
VariantsOf_numbered(d0, canon) ==
    {f \in Mp3Files(d0) : /\ SUFFIX_RE(f).ok
                          /\ BaseOf(f).ok
                          /\ casefold(BaseOfMatch(BaseOf(f)))
                               = casefold(BaseOfMatch(BaseOf(canon)))}

\* by_base.get(base.casefold(), []): the files indexed under the base of
\* canon when the call starts (the index is not refreshed by the renames).
VariantsOf(d0, canon) ==
    {f \in Mp3Files(d0) : /\ BaseOf(f).ok
                          /\ casefold(BaseOfMatch(BaseOf(f)))
                               = casefold(BaseOfMatch(BaseOf(canon)))}

\* The conditions under which the loop body reaches os.rename for canon.
promotes(d0, canon) ==
    /\ BaseOf(canon).ok
    /\ VariantsOf(d0, canon) # {}
    /\ canon \notin VariantsOf(d0, canon)
    /\ Cardinality(VariantsOf(d0, canon)) = 1

\* The loop `for canon in expected`, in the order corder.
RECURSIVE RenameLoop(_, _, _, _)
RenameLoop(d, d0, corder, n) ==
    IF n > Len(corder) THEN d
    ELSE LET canon == corder[n]
         IN  IF promotes(d0, canon)
             THEN RenameLoop(os_rename(d, CHOOSE f \in VariantsOf(d0, canon) : TRUE, canon),
                             d0, corder, n + 1)
             ELSE RenameLoop(d, d0, corder, n + 1)

\* rename_single_variant_to_canonical: the directories it may leave, one for
\* every iteration order of the set `expected`.
rename_single_variant_to_canonical(d, tracks) ==
    {RenameLoop(d, d, corder, 1) : corder \in Enumerations(ExpectedCanon(tracks))}

-----------------------------------------------------------------------------
(* Bounds and the values the initial states are drawn from                 *)

MaxSanLen == 4      \* longest raw string given to sanitize_filename
MaxRows == 2        \* most lines of the initial .song_ids file
MaxTracks == 2      \* most tracks of the playlist
MaxTicks == 1       \* most seconds the clock advances during a run

\* Characters of the raw strings given to sanitize_filename.
SanChars == {"C", "o", "N", "M", "1", ".", "_", "/", "?", ",", "\"", CTRL}

Strings(chars, n) == UNION {[1..k -> chars] : k \in 0..n}

\* Sequences of at most n distinct elements of S.
DistinctSeqs(S, n) ==
    UNION {{e \in [1..k -> S] : \A i, j \in 1..k : i # j => e[i] # e[j]} : k \in 0..n}

\* Tracks the remote playlist may hold.
TrackPool ==
    {[id |-> "id1", artist |-> Artist_A, title |-> Title_T],
     [id |-> "id2", artist |-> Artist_a, title |-> Title_t],
     [id |-> "id2", artist |-> Artist_X, title |-> Title_Y]}

\* Timestamps already in the file: two seconds before the run starts.
OldStamps == {strftime(1), strftime(2)}

\* The clock when the run starts: the second after the latest of them.
StartTime == Max({s.dt : s \in OldStamps}) + 1

\* Lines the .song_ids file may hold: (artist, title, filename) as written by
\* earlier runs, for the canonical file, a numbered variant, another
\* spelling of the artist and title, another track, and an empty filename
\* field; and one line that does not have five fields.
NamePool ==
    {<<Artist_A, Title_T, File_AT>>, <<Artist_A, Title_T, File_AT1>>,
     <<Artist_a, Title_t, File_AT>>, <<Artist_X, Title_Y, File_XY>>,
     <<Artist_A, Title_T, <<>>>>}

BadLine == [wf |-> FALSE, id |-> "", ts |-> strftime(1), artist |-> <<>>,
            title |-> <<>>, fname |-> <<>>]

LinePool ==
    {Line(id, ts, nm[1], nm[2], nm[3]) : id \in {"id1", "id2"}, ts \in OldStamps, nm \in NamePool}
    \cup {BadLine}

NoStats == [kept |-> 0, dropped_orphans |-> 0, added |-> 0, flipped |-> 0, deduped |-> 0]

\* A directory in which every file still has the content it was created with.
FreshDir(names) == [f \in names |-> f]

InitEngine ==
    /\ sIn = <<>>
    /\ sOut = <<>>
    /\ ledger \in UNION {[1..k -> LinePool] : k \in 0..MaxRows}
    /\ disk \in {FreshDir(names) : names \in SUBSET FilePool}
    /\ playlist \in DistinctSeqs(TrackPool, MaxTracks)
    /\ now = StartTime
    /\ run = 1
    /\ stats = NoStats
    /\ pre = [ledger |-> ledger, disk |-> disk, op |-> "none"]
    /\ snap = <<>>
    /\ files_to_remove = {}

-----------------------------------------------------------------------------
(* Actions: the engine calls                                               *)

\* stats = sid_cleanup_song_ids_orphans(playlist_dir)
Cleanup(from, to) ==
    /\ pc = from
    /\ LET r == cleanup_song_ids_orphans(ledger, disk)
       IN  /\ ledger' = r.file
           /\ stats' = [NoStats EXCEPT !.kept = r.kept, !.dropped_orphans = r.dropped_orphans]
    /\ pre' = [ledger |-> ledger, disk |-> disk, op |-> "cleanup"]
    /\ pc' = to
    /\ UNCHANGED <<sIn, sOut, disk, playlist, now, run, snap, files_to_remove>>

\* added, flipped, deduped = sid_reconcile_song_ids_flip_ids(playlist_dir, playlist_tracks)
Reconcile(from, to) ==
    /\ pc = from
    /\ \E r \in {reconcile_song_ids_flip_ids(ledger, disk, playlist, now)} :
           /\ ledger' = r.file
           /\ stats' = [stats EXCEPT !.added = r.added, !.flipped = r.flipped,
                                     !.deduped = r.deduped]
    /\ pre' = [ledger |-> ledger, disk |-> disk, op |-> "reconcile"]
    /\ pc' = to
    /\ UNCHANGED <<sIn, sOut, disk, playlist, now, run, snap, files_to_remove>>

\* restrict_keys = sid_build_existing_keys_set(playlist_dir)
\* sid_maybe_update_song_ids_from_playlist_existing_only(..., restrict_keys)
Update(from, to) ==
    /\ pc = from
    /\ ledger' \in maybe_update_song_ids_from_playlist_existing_only(
                      ledger, disk, playlist, build_existing_keys_set(disk), now)
    /\ pre' = [ledger |-> ledger, disk |-> disk, op |-> "update"]
    /\ pc' = to
    /\ UNCHANGED <<sIn, sOut, disk, playlist, now, run, stats, snap, files_to_remove>>

\* sid_rename_single_variant_to_canonical(playlist_dir, playlist_tracks)
Rename(from) ==
    /\ pc = from
    /\ disk' \in rename_single_variant_to_canonical(disk, playlist)
    /\ pre' = [ledger |-> ledger, disk |-> disk, op |-> "rename"]
    /\ UNCHANGED <<sIn, sOut, ledger, playlist, now, stats, files_to_remove>>

\* A second passes on the wall clock.
Tick ==
    /\ pc \notin {"done", "returned"}
    /\ now < StartTime + MaxTicks
    /\ now' = now + 1
    /\ UNCHANGED <<sIn, sOut, ledger, disk, playlist, pc, run, stats, pre, snap, files_to_remove>>

\* The reconciliation sequence of playlist_extractor.py, run twice.
PassCleanup == Cleanup("cleanup", "reconcile")
PassReconcile == Reconcile("reconcile", "update")
PassUpdate == Update("update", "rename")
\* The call that ends a pass: the first pass is followed by a second one, and
\* snap keeps the ledger the first pass left.
PassRename ==
    /\ Rename("rename")
    /\ IF run = 1
       THEN pc' = "cleanup" /\ run' = 2 /\ snap' = ledger
       ELSE pc' = "done" /\ UNCHANGED <<run, snap>>

Init == InitEngine /\ pc = "cleanup"

Next == PassCleanup \/ PassReconcile \/ PassUpdate \/ PassRename \/ Tick

Spec == Init /\ [][Next]_vars

\* A single call of one exported function on any directory and ledger.
CallCleanup == Cleanup("call", "returned")
CallReconcile == Reconcile("call", "returned")
CallUpdate == Update("call", "returned")
CallRename == Rename("call") /\ pc' = "returned" /\ UNCHANGED <<run, snap>>

InitApi == InitEngine /\ pc = "call"

NextApi == CallCleanup \/ CallReconcile \/ CallUpdate \/ CallRename

SpecApi == InitApi /\ [][NextApi]_vars

-----------------------------------------------------------------------------
(* Actions: sanitize_filename applied and applied again                    *)

InitSan ==
    /\ sIn \in Strings(SanChars, MaxSanLen)
    /\ sOut = <<>>
    /\ ledger = <<>>
    /\ disk = FreshDir({})
    /\ playlist = <<>>
    /\ now = StartTime
    /\ pc = "sanitize"
    /\ run = 1
    /\ stats = NoStats
    /\ pre = [ledger |-> <<>>, disk |-> FreshDir({}), op |-> "none"]
    /\ snap = <<>>
    /\ files_to_remove = {}

ApplySanitize ==
    /\ pc = "sanitize"
    /\ Len(sOut) < 2
    /\ sOut' = Append(sOut, sanitize_filename(IF sOut = <<>> THEN sIn ELSE sOut[Len(sOut)]))
    /\ UNCHANGED <<sIn, ledger, disk, playlist, now, pc, run, stats, pre, snap, files_to_remove>>

SpecSan == InitSan /\ [][ApplySanitize]_vars

-----------------------------------------------------------------------------
(* utils.get_possible_filenames                                            *)

\* [a-zA-Z0-9]
IsAsciiAlnum(c) == Ord(c) \in (48..57) \cup (65..90) \cup (97..122)

\* Path(file_name).suffix: from the last dot, unless it is the first or the
\* last character of the name.
PathSuffix(name) ==
    LET dots == {i \in 1..Len(name) : name[i] = "."}
    IN  IF dots # {} /\ Max(dots) > 1 /\ Max(dots) < Len(name)
        THEN SubSeq(name, Max(dots), Len(name)) ELSE <<>>

PathStem(name) == SubSeq(name, 1, Len(name) - Len(PathSuffix(name)))

\* unicodedata.normalize('NFKD', stem).encode('ASCII', 'ignore').decode('ASCII')
AsciiFold(s) ==
    LET base(c) == IF c = "e'" THEN "e" ELSE IF c = "E'" THEN "E" ELSE c
    IN  SelectSeq([i \in 1..Len(s) |-> base(s[i])], LAMBDA c : c # "'")

\* re.sub(r'[^a-zA-Z0-9\s\-_.]', '', s)
AlnumOnly(s) ==
    SelectSeq(s, LAMBDA c : IsAsciiAlnum(c) \/ IsSpace(c) \/ c \in {"-", "_", "."})

\* s.replace('_.', '..')
RECURSIVE ReplaceUnderscoreDot(_)
ReplaceUnderscoreDot(s) ==
    IF Len(s) < 2 THEN s
    ELSE IF s[1] = "_" /\ s[2] = "." THEN <<".", ".">> \o ReplaceUnderscoreDot(SubSeq(s, 3, Len(s)))
    ELSE <<s[1]>> \o ReplaceUnderscoreDot(Tail(s))

\* The k-th of the replacements that get_possible_filenames applies to the
\* stems, in the order of the code.
StemVariant(k, s) ==
    CASE k = 1 -> casefold(s)
      [] k = 2 -> strip(s)
      [] k = 3 -> ReplaceChar(s, " ", <<"_">>)
      [] k = 4 -> ReplaceChar(s, " ", <<"-">>)
      [] k = 5 -> ReplaceChar(s, "_", <<".">>)
      [] k = 6 -> ReplaceChar(s, ":", <<"_">>)
      [] k = 7 -> ReplaceChar(s, "_", <<"?">>)
      [] k = 8 -> ReplaceChar(s, "_", <<".">>)
      [] k = 9 -> ReplaceChar(s, "_", <<"!">>)
      [] OTHER -> ReplaceUnderscoreDot(s)

\* stems.update({f(s) for s in stems}), for the k-th replacement and the
\* ones after it.
RECURSIVE UpdateStems(_, _)
UpdateStems(stems, k) ==
    IF k > 10 THEN stems
    ELSE UpdateStems(stems \cup {StemVariant(k, s) : s \in stems}, k + 1)

get_possible_filenames(file_name) ==
    LET stem == PathStem(file_name)
        ext == PathSuffix(file_name)
        stems == UpdateStems({stem, AsciiFold(stem), AlnumOnly(AsciiFold(stem))}, 1)
    IN  {s \o ext : s \in stems} \cup {file_name}

\* The variants of the names of the model, computed once.
PossibleNames == [f \in KnownNames |-> get_possible_filenames(f)]

PossibleOf(f) == IF f \in KnownNames THEN PossibleNames[f] ELSE get_possible_filenames(f)

-----------------------------------------------------------------------------
(* playlist_extractor.py: the file steps of a run                          *)

\* write_playlist_to_m3u8: one line "sanitized(artist - title).mp3" per track.
write_playlist_to_m3u8(tracks) ==
    [i \in 1..Len(tracks) |->
        sanitize_filename(tracks[i].artist \o SEP \o tracks[i].title) \o MP3]

\* expected_names = {line.strip() for line in f if line.strip()}
expected_names(tracks) ==
    {strip(l) : l \in {m \in Range(write_playlist_to_m3u8(tracks)) : strip(m) # <<>>}}

\* m3u8_files: the lines that do not start with "#" and end with ".mp3".
m3u8_files(tracks) ==
    {strip(l) : l \in {m \in Range(write_playlist_to_m3u8(tracks)) :
                          Head(m) # "#" /\ EndsWith(strip(m), MP3)}}

\* normalized_m3u8_files
normalized_m3u8_files(tracks) ==
    UNION {PossibleOf(f) \cup {sanitize_filename(f)} : f \in m3u8_files(tracks)}

_playlist_bases_set(tracks) ==
    {casefold(sanitize_filename(strip(tracks[i].artist) \o SEP \o strip(tracks[i].title))) :
        i \in {j \in 1..Len(tracks) : strip(tracks[j].artist) # <<>> /\ strip(tracks[j].title) # <<>>}}

_is_suffix_variant_of_playlist(file_name, playlist_bases) ==
    /\ BaseOf(file_name).ok
    /\ casefold(sanitize_filename(strip(BaseOf(file_name).artist) \o SEP
                                  \o strip(BaseOf(file_name).title))) \in playlist_bases

\* os.remove of every file of the set.
os_remove_all(d, gone) == [f \in DOMAIN d \ gone |-> d[f]]

\* prompt_rename_mismatched_files: the files the user is asked about.
prompt_candidates(d, tracks) ==
    {a \in Mp3Files(d) : /\ a \notin expected_names(tracks)
                         /\ \E e \in expected_names(tracks) : a \in PossibleOf(e)}

\* The loop over actual_files in the order of a listing: yes is the set of
\* files for which the user answers "y", target the entry of
\* expected_variants for each file.
RECURSIVE PromptLoop(_, _, _, _, _)
PromptLoop(d, order, yes, target, n) ==
    IF n > Len(order) THEN d
    ELSE PromptLoop(IF order[n] \in yes THEN os_rename(d, order[n], target[order[n]]) ELSE d,
                    order, yes, target, n + 1)

prompt_rename_mismatched_files(d, tracks) ==
    LET cand == prompt_candidates(d, tracks)
        targets == {t \in [cand -> expected_names(tracks)] : \A a \in cand : a \in PossibleOf(t[a])}
    IN  {PromptLoop(d, order, yes, t, 1) :
            order \in Enumerations(cand), yes \in SUBSET cand, t \in targets}

\* cleanup_non_matching_files: the files it deletes.
non_matching_files(d, tracks) ==
    LET acceptable == UNION {PossibleOf(e) : e \in expected_names(tracks)}
    IN  {a \in Mp3Files(d) : /\ a \notin acceptable
                             /\ ~_is_suffix_variant_of_playlist(a, _playlist_bases_set(tracks))}

cleanup_non_matching_files(d, tracks) == os_remove_all(d, non_matching_files(d, tracks))

\* The content of a file copied from another playlist directory.
Copied(name) == <<"copy">> \o name

\* original_file_name.rsplit(".", 1)[0].split(" - "): (author_name, song_name)
split_author_song(name) ==
    LET dots == {i \in 1..Len(name) : name[i] = "."}
        stem == IF dots = {} THEN name ELSE SubSeq(name, 1, Max(dots) - 1)
        cuts == {i \in 1..(Len(stem) - 2) : SubSeq(stem, i, i + 2) = SEP}
    IN  IF cuts = {} THEN <<<<"U", "n", "k", "n", "o", "w", "n">>, stem>>
        ELSE <<SubSeq(stem, 1, Min(cuts) - 1), SubSeq(stem, Min(cuts) + 3, Len(stem))>>

\* The copy loop over track_metadata: found are the manifest names that exist
\* in another directory under base_music_path, meta the id of the line that
\* directory's .song_ids holds for the track ("" when it holds none).
RECURSIVE CopyLoop(_, _, _, _, _)
CopyLoop(st, names, found, meta, n) ==
    IF n > Len(names) THEN st
    ELSE LET f == names[n]
             as == split_author_song(f)
         IN  IF f \in found /\ f \notin DOMAIN st.disk
             THEN CopyLoop([disk |-> [g \in DOMAIN st.disk \cup {f} |->
                                         IF g = f THEN Copied(f) ELSE st.disk[g]],
                            file |-> IF meta[f] = "" THEN st.file
                                     ELSE Append(st.file,
                                                 Line(meta[f], strftime(1), as[1], as[2], f))],
                           names, found, meta, n + 1)
             ELSE CopyLoop(st, names, found, meta, n + 1)

\* files_to_remove: the .mp3 files none of whose variants is a variant of a
\* manifest entry.
compute_files_to_remove(d, tracks) ==
    {f \in {g \in DOMAIN d : EndsWith(g, MP3)} :
        PossibleOf(f) \cap normalized_m3u8_files(tracks) = {}}
    \ {<<".", "_", "1", ".", "m", "p", "3">>}

\* Phase 1. The files whose sanitized name differs from their name, grouped
\* by that sanitized name.
phase1_groups(d, todo) ==
    LET fix == {f \in todo : IsMp3Name(f) /\ f \in DOMAIN d /\ sanitize_filename(f) # f}
    IN  {{g \in fix : sanitize_filename(g) = sanitize_filename(f)} : f \in fix}

\* The set files_to_remove is iterated in arbitrary order. Of the files that
\* sanitize to one name, the first is renamed to it when no file has that
\* name, and every other one is removed as a duplicate: first gives the file
\* of each group that comes first.
phase1(d, todo, first) ==
    LET groups == phase1_groups(d, todo)
        fix == UNION groups
        target(G) == sanitize_filename(first[G])
        renamed == {G \in groups : target(G) \notin DOMAIN d}
    IN  [f \in (DOMAIN d \ fix) \cup {target(G) : G \in renamed} |->
            IF f \in DOMAIN d \ fix THEN d[f]
            ELSE d[first[CHOOSE G \in renamed : target(G) = f]]]

phase1_outcomes(d, todo) ==
    {phase1(d, todo, first) : first \in Choices(phase1_groups(d, todo))}

\* sorted(os.listdir(playlist_dir))
RECURSIVE SortNames(_)
SortNames(S) ==
    IF S = {} THEN <<>>
    ELSE LET m == CHOOSE x \in S : \A y \in S \ {x} : StrLess(x, y)
         IN  <<m>> \o SortNames(S \ {m})

\* The conditions under which the promotion loop renames fname.
promote_wanted(d, fname, tracks) ==
    /\ SUFFIX_RE(fname).ok
    /\ sanitize_filename(SUFFIX_RE(fname).base) \o MP3 \in normalized_m3u8_files(tracks)
    /\ sanitize_filename(SUFFIX_RE(fname).base) \o MP3 \notin DOMAIN d

\* Phase 2, the loop that promotes suffix variants to canonical names.
RECURSIVE PromoteLoop(_, _, _, _)
PromoteLoop(d, order, tracks, n) ==
    IF n > Len(order) THEN d
    ELSE LET fname == order[n]
         IN  IF IsMp3Name(fname) /\ promote_wanted(d, fname, tracks)
             THEN PromoteLoop(os_rename(d, fname, sanitize_filename(SUFFIX_RE(fname).base) \o MP3),
                              order, tracks, n + 1)
             ELSE PromoteLoop(d, order, tracks, n + 1)

promote_suffix_variants(d, tracks) == PromoteLoop(d, SortNames(DOMAIN d), tracks, 1)

\* Phase 2, the final cleanup: the files it removes.
final_cleanup_files(d, tracks) ==
    {f \in Mp3Files(d) : /\ f \notin normalized_m3u8_files(tracks)
                         /\ ~_is_suffix_variant_of_playlist(f, _playlist_bases_set(tracks))}

-----------------------------------------------------------------------------
(* Actions: one run of the extractor on a playlist directory               *)

\* Tracks of the playlist of a run: a plain one, one whose artist holds a
\* hyphen, one whose title holds a character that sanitize_filename replaces.
RunTrackPool ==
    {[id |-> "id1", artist |-> Artist_A, title |-> Title_T],
     [id |-> "id2", artist |-> Artist_AB, title |-> Title_T],
     [id |-> "id3", artist |-> Artist_A, title |-> Title_Tq]}

InitRun ==
    /\ sIn = <<>>
    /\ sOut = <<>>
    /\ ledger \in {<<>>, <<Line("id1", strftime(1), Artist_A, Title_T, File_AT1)>>}
    /\ disk \in {FreshDir(names) : names \in SUBSET RunFilePool}
    /\ playlist \in DistinctSeqs(RunTrackPool, MaxTracks)
    /\ now = StartTime
    /\ run = 1
    /\ stats = NoStats
    /\ pre = [ledger |-> ledger, disk |-> disk, op |-> "none"]
    /\ snap = <<>>
    /\ files_to_remove = {}
    /\ pc = "run_cleanup"

RunCleanup == Cleanup("run_cleanup", "run_reconcile")
RunReconcile == Reconcile("run_reconcile", "run_update")
RunUpdate == Update("run_update", "run_rename")
RunRename == Rename("run_rename") /\ pc' = "prompt" /\ UNCHANGED <<run, snap>>

\* prompt_rename_mismatched_files(playlist_dir, m3u8_file)
RunPrompt ==
    /\ pc = "prompt"
    /\ disk' \in prompt_rename_mismatched_files(disk, playlist)
    /\ pre' = [ledger |-> ledger, disk |-> disk, op |-> "prompt_rename_mismatched_files"]
    /\ pc' = "non_matching"
    /\ UNCHANGED <<sIn, sOut, ledger, playlist, now, run, stats, snap, files_to_remove>>

\* cleanup_non_matching_files(playlist_dir, m3u8_file, playlist_tracks)
RunNonMatching ==
    /\ pc = "non_matching"
    /\ disk' = cleanup_non_matching_files(disk, playlist)
    /\ pre' = [ledger |-> ledger, disk |-> disk, op |-> "cleanup_non_matching_files"]
    /\ pc' = "copy"
    /\ UNCHANGED <<sIn, sOut, ledger, playlist, now, run, stats, snap, files_to_remove>>

\* for file_name, original_file_name, release_year in track_metadata: copy
\* the file from another directory when the playlist directory lacks it.
RunCopy ==
    /\ pc = "copy"
    /\ \E found \in SUBSET Range(write_playlist_to_m3u8(playlist)) :
       \E meta \in [found -> {"", "id1"}] :
          LET st == CopyLoop([disk |-> disk, file |-> ledger],
                             write_playlist_to_m3u8(playlist), found, meta, 1)
          IN  disk' = st.disk /\ ledger' = st.file
    /\ pre' = [ledger |-> ledger, disk |-> disk, op |-> "copy"]
    /\ pc' = "mark"
    /\ UNCHANGED <<sIn, sOut, playlist, now, run, stats, snap, files_to_remove>>

\* files_to_remove is computed; when it is empty the cleanup phases are skipped.
RunMark ==
    /\ pc = "mark"
    /\ files_to_remove' = compute_files_to_remove(disk, playlist)
    /\ pre' = [ledger |-> ledger, disk |-> disk, op |-> "files_to_remove"]
    /\ pc' = IF files_to_remove' # {} THEN "phase1" ELSE "run_done"
    /\ UNCHANGED <<sIn, sOut, ledger, disk, playlist, now, run, stats, snap>>

\* PHASE 1: rename files that can be fixed by sanitizing, remove duplicates.
RunPhase1 ==
    /\ pc = "phase1"
    /\ disk' \in phase1_outcomes(disk, files_to_remove)
    /\ pre' = [ledger |-> ledger, disk |-> disk, op |-> "phase1"]
    /\ pc' = "promote"
    /\ UNCHANGED <<sIn, sOut, ledger, playlist, now, run, stats, snap, files_to_remove>>

\* PHASE 2, first loop: promote suffix variants to canonical names.
RunPromote ==
    /\ pc = "promote"
    /\ disk' = promote_suffix_variants(disk, playlist)
    /\ pre' = [ledger |-> ledger, disk |-> disk, op |-> "promote"]
    /\ pc' = "final_cleanup"
    /\ UNCHANGED <<sIn, sOut, ledger, playlist, now, run, stats, snap, files_to_remove>>

\* PHASE 2, second loop: remove the .mp3 files that match no expected name,
\* then stats2 = cleanup_song_ids_orphans(playlist_dir).
RunFinalCleanup ==
    /\ pc = "final_cleanup"
    /\ disk' = os_remove_all(disk, final_cleanup_files(disk, playlist))
    /\ LET r == cleanup_song_ids_orphans(ledger, disk')
       IN  /\ ledger' = r.file
           /\ stats' = [stats EXCEPT !.kept = r.kept, !.dropped_orphans = r.dropped_orphans]
    /\ pre' = [ledger |-> ledger, disk |-> disk, op |-> "final_cleanup"]
    /\ pc' = "run_done"
    /\ UNCHANGED <<sIn, sOut, playlist, now, run, snap, files_to_remove>>

NextRun ==
    \/ RunCleanup \/ RunReconcile \/ RunUpdate \/ RunRename
    \/ RunPrompt \/ RunNonMatching \/ RunCopy \/ RunMark
    \/ RunPhase1 \/ RunPromote \/ RunFinalCleanup

SpecRun == InitRun /\ [][NextRun]_vars

-----------------------------------------------------------------------------
(* Actions: the Identity Key of two (artist, title) pairs                  *)

MaxKeyLen == 3      \* longest artist given to _norm_key

\* Characters of the artists: the Greek iota in both cases, the small iota
\* precomposed with dialytika and tonos, the two combining marks, a blank.
KeyChars == {"U+03B9", "U+0399", "U+0390", "U+0308", "'", SP}

\* Titles: one title with an accented letter, decomposed and in upper case,
\* and composed, in lower case and with surrounding whitespace.
KeyTitles == {<<"E", "'">>, <<SP, "e'", CTRL>>}

InitKey ==
    /\ sIn \in {<<<<a1, t1>>, <<a2, t2>>>> :
                    a1 \in Strings(KeyChars, MaxKeyLen), a2 \in Strings(KeyChars, MaxKeyLen),
                    t1 \in KeyTitles, t2 \in KeyTitles}
    /\ sOut = <<>>
    /\ ledger = <<>>
    /\ disk = FreshDir({})
    /\ playlist = <<>>
    /\ now = StartTime
    /\ pc = "keys"
    /\ run = 1
    /\ stats = NoStats
    /\ pre = [ledger |-> <<>>, disk |-> FreshDir({}), op |-> "none"]
    /\ snap = <<>>
    /\ files_to_remove = {}

\* key = _norm_key(artist, title), for both pairs.
ComputeKeys ==
    /\ pc = "keys"
    /\ sOut' = <<_norm_key(sIn[1][1], sIn[1][2]), _norm_key(sIn[2][1], sIn[2][2])>>
    /\ pc' = "keyed"
    /\ UNCHANGED <<sIn, ledger, disk, playlist, now, run, stats, pre, snap, files_to_remove>>

SpecKey == InitKey /\ [][ComputeKeys]_vars

-----------------------------------------------------------------------------
(* Actions: one call of reconcile_song_ids_flip_ids                        *)

\* Timestamp texts that datetime.strptime rejects: one that sorts before
\* every well-formed text (an empty field) and one that sorts after them
\* (a word); both parse to datetime.min.
UnparsedLow == [str |-> 0, dt |-> 0]
UnparsedHigh == [str |-> 99, dt |-> 0]

\* Tracks of the playlist: a plain one, one whose title holds a character
\* that sanitize_filename replaces, and another plain one.
RecTrackPool ==
    {[id |-> "id1", artist |-> Artist_A, title |-> Title_T],
     [id |-> "id3", artist |-> Artist_A, title |-> Title_Tq],
     [id |-> "id2", artist |-> Artist_X, title |-> Title_Y]}

\* The files of the directory: Zotify writes a track under its sanitized name.
RecFilePool == {File_AT, File_ATu, File_XY}

\* Rows of the ledger: a track's own row, a row that spells it in another
\* case, a row of another track that names the same file, and the row of the
\* track with the sanitized name.
RecNamePool ==
    {<<Artist_A, Title_T, File_AT>>, <<Artist_a, Title_t, File_AT>>,
     <<Artist_X, Title_Y, File_AT>>, <<Artist_A, Title_Tq, File_ATu>>}

RecLinePool ==
    {Line(id, ts, nm[1], nm[2], nm[3]) :
        id \in {"id1", "id2"}, ts \in OldStamps \cup {UnparsedLow, UnparsedHigh},
        nm \in RecNamePool}

InitRec ==
    /\ sIn = <<>>
    /\ sOut = <<>>
    /\ ledger \in UNION {[1..k -> RecLinePool] : k \in 0..MaxRows}
    /\ disk \in {FreshDir(names) : names \in SUBSET RecFilePool}
    /\ playlist \in DistinctSeqs(RecTrackPool, MaxTracks)
    /\ now = StartTime
    /\ pc = "call"
    /\ run = 1
    /\ stats = NoStats
    /\ pre = [ledger |-> ledger, disk |-> disk, op |-> "none"]
    /\ snap = <<>>
    /\ files_to_remove = {}

SpecRec == InitRec /\ [][CallReconcile]_vars

-----------------------------------------------------------------------------
(* Actions: one engine call on a directory that has no .song_ids file      *)

\* The calls that raise: each reads the ledger before anything else.
cleanup_raises(file) == _read_song_ids_rows_raises(file)
reconcile_raises(file) == open_read_raises(touch(file))
update_raises(file) == _read_song_ids_rows_raises(file)

\* Where a call ends: with an exception, or at its return.
outcome(raises, to) == IF raises THEN "raised" ELSE to

TryCleanup == Cleanup("call", outcome(cleanup_raises(ledger), "returned"))
TryReconcile == Reconcile("call", outcome(reconcile_raises(ledger), "returned"))
TryUpdate == Update("call", outcome(update_raises(ledger), "returned"))

InitMissing ==
    /\ sIn = <<>>
    /\ sOut = <<>>
    /\ ledger = NoFile
    /\ disk \in {FreshDir(names) : names \in SUBSET FilePool}
    /\ playlist \in DistinctSeqs(TrackPool, MaxTracks)
    /\ now = StartTime
    /\ pc = "call"
    /\ run = 1
    /\ stats = NoStats
    /\ pre = [ledger |-> ledger, disk |-> disk, op |-> "none"]
    /\ snap = <<>>
    /\ files_to_remove = {}

NextMissing == TryCleanup \/ TryReconcile \/ TryUpdate

SpecMissing == InitMissing /\ [][NextMissing]_vars

-----------------------------------------------------------------------------
(* Actions: the batches that rename or delete files, on a filesystem that  *)
(* refuses some of the operations                                          *)

\* os.rename, os.remove and Path.unlink raise OSError when the filesystem
\* refuses the operation on the file.
os_raises(f, refused) == f \in refused

\* Mutation: os.rename is called outside a try statement.
rename_try_uncaught(src, refused) ==
    [done |-> ~os_raises(src, refused), raised |-> os_raises(src, refused)]

\* try: os.rename(src, dst) / except Exception as e: print(...)
\* done: the file was renamed; raised: an exception leaves the statement.
rename_try(src, refused) == [done |-> ~os_raises(src, refused), raised |-> FALSE]

\* try: os.remove(file_path) / except Exception as e: print(...)
remove_try(f, refused) == [done |-> ~os_raises(f, refused), raised |-> FALSE]

\* try: song_path.unlink() / except Exception as e: CustomPrint.bold_print(...)
unlink_try(f, refused) == [done |-> ~os_raises(f, refused), raised |-> FALSE]

\* The loop of rename_single_variant_to_canonical: log is the sequence of the
\* files whose rename was attempted; the loop ends where an exception
\* leaves it.
RECURSIVE RenameBatch(_, _, _, _, _, _)
RenameBatch(d, d0, corder, n, refused, log) ==
    IF n > Len(corder) THEN [disk |-> d, log |-> log, raised |-> FALSE]
    ELSE IF ~promotes(d0, corder[n]) THEN RenameBatch(d, d0, corder, n + 1, refused, log)
    ELSE LET src == CHOOSE f \in VariantsOf(d0, corder[n]) : TRUE
             t == rename_try(src, refused)
             d1 == IF t.done THEN os_rename(d, src, corder[n]) ELSE d
         IN  IF t.raised THEN [disk |-> d1, log |-> Append(log, src), raised |-> TRUE]
             ELSE RenameBatch(d1, d0, corder, n + 1, refused, Append(log, src))

\* The loop of cleanup_non_matching_files over the files it deletes, in the
\* order of os.listdir.
RECURSIVE RemoveBatch(_, _, _, _, _)
RemoveBatch(d, order, n, refused, log) ==
    IF n > Len(order) THEN [disk |-> d, log |-> log, raised |-> FALSE]
    ELSE LET t == remove_try(order[n], refused)
             d1 == IF t.done THEN os_remove_all(d, {order[n]}) ELSE d
         IN  IF t.raised THEN [disk |-> d1, log |-> Append(log, order[n]), raised |-> TRUE]
             ELSE RemoveBatch(d1, order, n + 1, refused, Append(log, order[n]))

\* The loop of remove_leftover_songs over the set leftover_songs: a song is
\* unlinked when its path exists.
RECURSIVE UnlinkBatch(_, _, _, _, _)
UnlinkBatch(d, order, n, refused, log) ==
    IF n > Len(order) THEN [disk |-> d, log |-> log, raised |-> FALSE]
    ELSE IF order[n] \notin DOMAIN d THEN UnlinkBatch(d, order, n + 1, refused, log)
    ELSE LET t == unlink_try(order[n], refused)
             d1 == IF t.done THEN os_remove_all(d, {order[n]}) ELSE d
         IN  IF t.raised THEN [disk |-> d1, log |-> Append(log, order[n]), raised |-> TRUE]
             ELSE UnlinkBatch(d1, order, n + 1, refused, Append(log, order[n]))

\* Files of the directory: two sole numbered variants and another file.
FailFilePool == {File_AT1, File_ABT1, File_XY}

\* sIn holds the environment of the call: the files on which the filesystem
\* refuses a rename or a deletion, and the argument leftover_songs.
InitFail ==
    /\ sIn \in [refused : SUBSET FailFilePool, leftover_songs : SUBSET FailFilePool]
    /\ sOut = <<>>
    /\ ledger = <<>>
    /\ disk \in {FreshDir(names) : names \in SUBSET FailFilePool}
    /\ playlist \in DistinctSeqs(RunTrackPool, MaxTracks)
    /\ now = StartTime
    /\ pc = "call"
    /\ run = 1
    /\ stats = NoStats
    /\ pre = [ledger |-> ledger, disk |-> disk, op |-> "none"]
    /\ snap = <<>>
    /\ files_to_remove = {}

\* The batch has run: sOut is its log.
BatchDone(r, op) ==
    /\ disk' = r.disk
    /\ sOut' = r.log
    /\ pc' = outcome(r.raised, "returned")
    /\ pre' = [ledger |-> ledger, disk |-> disk, op |-> op]
    /\ UNCHANGED <<sIn, ledger, playlist, now, run, stats, snap, files_to_remove>>

\* sid_rename_single_variant_to_canonical(playlist_dir, playlist_tracks)
BatchRename ==
    /\ pc = "call"
    /\ \E corder \in Enumerations(ExpectedCanon(playlist)) :
          BatchDone(RenameBatch(disk, disk, corder, 1, sIn.refused, <<>>), "rename_batch")

\* cleanup_non_matching_files(playlist_dir, m3u8_file, playlist_tracks)
BatchRemove ==
    /\ pc = "call"
    /\ \E order \in Enumerations(non_matching_files(disk, playlist)) :
          BatchDone(RemoveBatch(disk, order, 1, sIn.refused, <<>>), "remove_batch")

\* remove_leftover_songs(leftover_songs, library_dir, auto_confirm=True)
BatchUnlink ==
    /\ pc = "call"
    /\ \E order \in Enumerations(sIn.leftover_songs) :
          BatchDone(UnlinkBatch(disk, order, 1, sIn.refused, <<>>), "unlink_batch")

NextFail == BatchRename \/ BatchRemove \/ BatchUnlink

SpecFail == InitFail /\ [][NextFail]_vars

-----------------------------------------------------------------------------
(* library_manager.py: orphan and leftover songs of the consolidated       *)
(* library, a flat directory of files                                      *)

\* Path.glob("*.mp3") / rglob("*.mp3"): the pattern is matched letter for
\* letter.
glob_mp3(name) == EndsWith(name, MP3)

\* song_path.name.startswith("._")
IsAppleDouble(name) == StartsWith(name, <<".", "_">>)

\* The set comprehension over the lines of one manifest: the lines that are
\* not blank and do not begin with "#", stripped and sanitized.
songs_in_playlist(lines) ==
    {sanitize_filename(strip(lines[i])) :
        i \in {j \in 1..Len(lines) : strip(lines[j]) # <<>> /\ ~StartsWith(lines[j], <<"#">>)}}

\* Mutation: the name of a library file is taken as it is.
library_song_raw(name) == name

\* all_songs.add(sanitize_filename(song_path.name))
library_song(name) == sanitize_filename(name)

check_orphan_and_leftover_songs(manifests, library, local) ==
    LET songs_in_playlists == UNION {songs_in_playlist(m) : m \in manifests}
        all_songs == {library_song(f) : f \in {g \in library : glob_mp3(g) /\ ~IsAppleDouble(g)}}
        local_files_songs == {sanitize_filename(f) : f \in {g \in local : glob_mp3(g)}}
        result(orphan_songs) ==
            [orphans |-> orphan_songs, leftovers |-> orphan_songs \ local_files_songs]
    IN  result(all_songs \ songs_in_playlists)

\* Mutation: the answer is not looked at.
confirm_always(auto_confirm, answer) == <<"y">>

\* confirm = 'y' if auto_confirm else input(...).strip().lower()
confirm(auto_confirm, answer) == IF auto_confirm THEN <<"y">> ELSE casefold(strip(answer))

\* remove_leftover_songs: the directory after the call, for one iteration
\* order of the set leftover_songs.
remove_leftover_songs(leftover_songs, d, auto_confirm, answer, order) ==
    IF leftover_songs = {} THEN d
    ELSE IF confirm(auto_confirm, answer) = <<"y">>
         THEN UnlinkBatch(d, order, 1, {}, <<>>).disk
         ELSE d

File_XYq == <<"X", " ", "-", " ", "Y", "?", ".", "m", "p", "3">>
File_XYu == <<"X", " ", "-", " ", "Y", "_", ".", "m", "p", "3">>
File_AppleDouble == <<".", "_">> \o File_AT1
File_UpperExt == <<"Q", ".", "M", "P", "3">>

\* Files of the library and of the local-files collection.
LibPool == {File_AT, File_XYq, File_XYu, File_AT1, File_AppleDouble, File_UpperExt}
LocalPool == {File_AT1, File_XYq}

\* Manifests of the playlist directory, as sequences of lines.
ManifestPool ==
    {<<File_AT, <<>>>>,
     <<<<"#", "E", "X", "T", "M", "3", "U">>, <<" ">> \o File_XYq \o <<" ">>>>,
     <<<<" ">>, <<"#">> \o File_AT1>>}

\* What the user types at the prompt.
AnswerPool == {<<"y">>, <<" ", "Y", " ">>, <<"n">>, <<>>, <<"y", "e", "s">>}

\* sIn holds the arguments and the environment of the calls; disk is
\* library_dir.
InitLib ==
    /\ sIn \in [manifests : SUBSET ManifestPool, local : SUBSET LocalPool,
                auto_confirm : BOOLEAN, answer : AnswerPool,
                leftover_songs : SUBSET {File_AT, File_XYu}]
    /\ sOut = <<>>
    /\ ledger = <<>>
    /\ disk \in {FreshDir(names) : names \in SUBSET LibPool}
    /\ playlist = <<>>
    /\ now = StartTime
    /\ pc = "call"
    /\ run = 1
    /\ stats = NoStats
    /\ pre = [ledger |-> ledger, disk |-> disk, op |-> "none"]
    /\ snap = {}
    /\ files_to_remove = {}

\* orphan_songs, leftover_songs = check_orphan_and_leftover_songs(...)
CheckOrphans ==
    /\ pc = "call"
    /\ sOut' = check_orphan_and_leftover_songs(sIn.manifests, DOMAIN disk, sIn.local)
    /\ pc' = "checked"
    /\ pre' = [ledger |-> ledger, disk |-> disk, op |-> "check_orphans"]
    /\ UNCHANGED <<sIn, ledger, disk, playlist, now, run, stats, snap, files_to_remove>>

\* remove_leftover_songs(leftover_songs, library_dir), with the set that
\* check_orphan_and_leftover_songs has returned or with a set given by the
\* caller; snap is the set.
RemoveLeftovers ==
    /\ pc \in {"call", "checked"}
    /\ \E given \in {IF pc = "checked" THEN sOut.leftovers ELSE sIn.leftover_songs} :
         \E order \in Enumerations(given) :
            /\ disk' = remove_leftover_songs(given, disk, sIn.auto_confirm, sIn.answer, order)
            /\ snap' = given
    /\ pc' = "removed"
    /\ pre' = [ledger |-> ledger, disk |-> disk, op |-> "remove_leftover_songs"]
    /\ UNCHANGED <<sIn, sOut, ledger, playlist, now, run, stats, files_to_remove>>

NextLib == CheckOrphans \/ RemoveLeftovers

SpecLib == InitLib /\ [][NextLib]_vars

-----------------------------------------------------------------------------
(* Actions: get_possible_filenames and sanitize_filename of one raw name   *)

MaxStemLen == 3     \* longest stem of the raw names

\* Characters of the stems of the raw names.
StemChars == {"a", "?", "!", ":", "_", " "}

InitNames ==
    /\ sIn \in {stem \o MP3 : stem \in Strings(StemChars, MaxStemLen)}
    /\ sOut = <<>>
    /\ ledger = <<>>
    /\ disk = FreshDir({})
    /\ playlist = <<>>
    /\ now = StartTime
    /\ pc = "call"
    /\ run = 1
    /\ stats = NoStats
    /\ pre = [ledger |-> <<>>, disk |-> FreshDir({}), op |-> "none"]
    /\ snap = {}
    /\ files_to_remove = {}

\* snap = get_possible_filenames(x), sOut = sanitize_filename(x)
ApplyVariants ==
    /\ pc = "call"
    /\ snap' = get_possible_filenames(sIn)
    /\ sOut' = sanitize_filename(sIn)
    /\ pc' = "returned"
    /\ UNCHANGED <<sIn, ledger, disk, playlist, now, run, stats, pre, files_to_remove>>

SpecNames == InitNames /\ [][ApplyVariants]_vars

-----------------------------------------------------------------------------
(* Actions: one call of diff_song_ids_vs_playlist_existing_only            *)

\* Tracks of the playlist, one of them without an id.
DiffTrackPool == TrackPool \cup {[id |-> "", artist |-> Artist_X, title |-> Title_Y]}

\* Lines of the ledger: complete rows, a row without an id, a row without a
\* title, and a line that does not have five fields.
DiffLinePool ==
    {Line("id1", strftime(1), Artist_A, Title_T, File_AT),
     Line("id2", strftime(1), Artist_a, Title_t, <<>>),
     Line("id2", strftime(1), Artist_X, Title_Y, File_XY),
     Line("", strftime(1), Artist_X, Title_Y, File_XY),
     Line("id2", strftime(1), Artist_X, <<>>, File_XY),
     BadLine}

InitDiff ==
    /\ sIn = <<>>
    /\ sOut = <<>>
    /\ ledger \in UNION {[1..k -> DiffLinePool] : k \in 0..MaxRows}
    /\ disk \in {FreshDir(names) : names \in SUBSET FilePool}
    /\ playlist \in DistinctSeqs(DiffTrackPool, MaxTracks)
    /\ now = StartTime
    /\ pc = "call"
    /\ run = 1
    /\ stats = NoStats
    /\ pre = [ledger |-> ledger, disk |-> disk, op |-> "none"]
    /\ snap = <<>>
    /\ files_to_remove = {}

\* diffs = diff_song_ids_vs_playlist_existing_only(playlist_dir,
\* playlist_tracks, restrict_keys), with restrict_keys as the callers build
\* it: sIn is restrict_keys, sOut is diffs.
CallDiff ==
    /\ pc = "call"
    /\ \E restrict_keys \in {build_existing_keys_set(disk)} :
          /\ sIn' = restrict_keys
          /\ sOut' = diff_song_ids_vs_playlist_existing_only(ledger, playlist, restrict_keys, now)
    /\ pc' = "returned"
    /\ pre' = [ledger |-> ledger, disk |-> disk, op |-> "diff"]
    /\ UNCHANGED <<ledger, disk, playlist, now, run, stats, snap, files_to_remove>>

SpecDiff == InitDiff /\ [][CallDiff]_vars

-----------------------------------------------------------------------------
(* library_manager.get_valid_songs_from_m3u                                *)

EXTM3U == <<"#", "E", "X", "T", "M", "3", "U">>
EXTINF == <<"#", "E", "X", "T", "I", "N", "F">>

\* The loop that keeps the first occurrence of every song.
RECURSIVE unique_songs(_, _)
unique_songs(song_paths, seen) ==
    IF song_paths = <<>> THEN <<>>
    ELSE IF Head(song_paths) \in seen THEN unique_songs(Tail(song_paths), seen)
    ELSE <<Head(song_paths)>> \o unique_songs(Tail(song_paths), seen \cup {Head(song_paths)})

\* lines = [line.strip() for line in f if line.strip()]; with "#EXTM3U" as
\* first line, lines[i] for i in range(1, len(lines), 2) (indices from 0).
get_valid_songs_from_m3u(file) ==
    LET every_other(lines) == [k \in 1..(Len(lines) \div 2) |-> lines[2 * k]]
        song_paths(lines) ==
            IF lines = <<>> THEN <<>>
            ELSE IF lines[1] = EXTM3U THEN every_other(lines)
            ELSE SelectSeq(lines, LAMBDA l : ~StartsWith(l, <<"#">>))
    IN  unique_songs(
            song_paths(SelectSeq([i \in 1..Len(file) |-> strip(file[i])], LAMBDA l : l # <<>>)),
            {})

MaxLines == 5       \* most lines of a manifest

\* Lines of a manifest: the header, a metadata line, two file references,
\* one of them also with blanks around it, and a blank line.
M3uLinePool ==
    {EXTM3U, EXTINF \o <<":", "1", ",", "A">>, <<"A", ".", "m", "p", "3">>,
     <<" ", "A", ".", "m", "p", "3", " ">>, <<"B", ".", "m", "p", "3">>, <<" ">>}

InitM3u ==
    /\ sIn \in UNION {[1..k -> M3uLinePool] : k \in 0..MaxLines}
    /\ sOut = <<>>
    /\ ledger = <<>>
    /\ disk = FreshDir({})
    /\ playlist = <<>>
    /\ now = StartTime
    /\ pc = "call"
    /\ run = 1
    /\ stats = NoStats
    /\ pre = [ledger |-> <<>>, disk |-> FreshDir({}), op |-> "none"]
    /\ snap = <<>>
    /\ files_to_remove = {}

\* valid_songs = get_valid_songs_from_m3u(m3u_path)
ReadManifest ==
    /\ pc = "call"
    /\ sOut' = get_valid_songs_from_m3u(sIn)
    /\ pc' = "returned"
    /\ UNCHANGED <<sIn, ledger, disk, playlist, now, run, stats, pre, snap, files_to_remove>>

SpecM3u == InitM3u /\ [][ReadManifest]_vars

-----------------------------------------------------------------------------
(* The playlist link: utils.create_hidden_playlist_link_file and the       *)
(* choice of the playlist directory in playlist_extractor.py               *)

NL == "\n"
NoDir == <<>>

\* url.split('?')[0]
clean_playlist_url(url) ==
    LET marks == {i \in 1..Len(url) : url[i] = "?"}
    IN  IF marks = {} THEN url ELSE SubSeq(url, 1, Min(marks) - 1)

\* f.write("# " + playlist_name + "\n"); f.write(trimmed_url)
link_file_text(playlist_name, playlist_url) ==
    <<"#", " ">> \o playlist_name \o <<NL>> \o clean_playlist_url(playlist_url)

\* The hidden file ".{name}".
HiddenName(name) == <<".">> \o name

\* base maps the directories of base_music_path to their hidden files (name
\* to text). open(hidden_file_path, 'w') in playlist_dir.
create_hidden_playlist_link_file(base, playlist_dir, playlist_name, playlist_url) ==
    LET hidden == HiddenName(sanitize_filename(playlist_name))
        written(old) ==
            [f \in DOMAIN old \cup {hidden} |->
                IF f = hidden THEN link_file_text(playlist_name, playlist_url) ELSE old[f]]
    IN  [d \in DOMAIN base |-> IF d = playlist_dir THEN written(base[d]) ELSE base[d]]

\* os.rename of a directory to a name that is free.
rename_dir(base, src, dst) ==
    IF src = dst THEN base
    ELSE [d \in (DOMAIN base \ {src}) \cup {dst} |-> IF d = dst THEN base[src] ELSE base[d]]

\* os.makedirs(playlist_dir) when the directory does not exist.
makedirs(base, dir) ==
    IF dir \in DOMAIN base THEN base
    ELSE [d \in DOMAIN base \cup {dir} |-> IF d = dir THEN << >> ELSE base[d]]

\* os.path.isfile(hidden_file_path) and file.read().strip() == playlist_url
link_matches(files, dir_name, playlist_url) ==
    /\ HiddenName(dir_name) \in DOMAIN files
    /\ strip(files[HiddenName(dir_name)]) = playlist_url

\* find_matching_playlist_dir, over the listing `order` of base_music_path: a
\* directory is first renamed to its sanitized name, and os.rename raises
\* when a directory of that name, holding files, exists.
RECURSIVE find_matching_playlist_dir(_, _, _, _)
find_matching_playlist_dir(base, order, n, playlist_url) ==
    IF n > Len(order) THEN [base |-> base, dir |-> NoDir, raised |-> FALSE]
    ELSE LET read(b, dir_name) ==
                 IF link_matches(b[dir_name], dir_name, playlist_url)
                 THEN [base |-> b, dir |-> dir_name, raised |-> FALSE]
                 ELSE find_matching_playlist_dir(b, order, n + 1, playlist_url)
             visit(dir_name, sanitized) ==
                 IF dir_name # sanitized /\ sanitized \in DOMAIN base
                 THEN [base |-> base, dir |-> NoDir, raised |-> TRUE]
                 ELSE read(rename_dir(base, dir_name, sanitized), sanitized)
         IN  visit(order[n], sanitize_filename(order[n]))

\* The selection of playlist_dir and the writing of the link file.
select_playlist_dir(base, order, playlist_url, playlist_name) ==
    LET chosen(b, matching_dir) ==
            IF matching_dir # NoDir
            THEN IF /\ playlist_name \in {sanitize_filename(d) : d \in DOMAIN b}
                    /\ playlist_name # matching_dir
                    /\ playlist_name \notin DOMAIN b
                 THEN [base |-> rename_dir(b, matching_dir, playlist_name), dir |-> playlist_name]
                 ELSE [base |-> b, dir |-> matching_dir]
            ELSE [base |-> makedirs(b, sanitize_filename(playlist_name)),
                  dir |-> sanitize_filename(playlist_name)]
        finish(c, matching_dir) ==
            [base |-> create_hidden_playlist_link_file(c.base, c.dir, playlist_name, playlist_url),
             matching_dir |-> matching_dir, playlist_dir |-> c.dir, raised |-> FALSE]
        after(found) ==
            IF found.raised
            THEN [base |-> found.base, matching_dir |-> NoDir, playlist_dir |-> NoDir,
                  raised |-> TRUE]
            ELSE finish(chosen(found.base, found.dir), found.dir)
    IN  after(find_matching_playlist_dir(base, order, 1, playlist_url))

MaxRuns == 3        \* most extractor runs on the music directory

Url_1 == <<"https://open.spotify.com/playlist/", "1">>
Url_2 == <<"https://open.spotify.com/playlist/", "2">>

\* URLs given to the extractor: plain, and with a query string.
UrlPool == {Url_1, Url_1 \o <<"?", "s", "i">>, Url_2}

\* Names of the remote playlists; the second one is changed by
\* sanitize_filename.
PlaylistNames == {<<"P">>, <<"Q", "?">>}

\* Directories that are in base_music_path before the first run: one whose
\* link file holds only a URL, one without a link file and with a name that
\* is not sanitized, and one with the sanitized form of that name.
OldDirs ==
    [dir : {<<"O">>}, files : {[f \in {HiddenName(<<"O">>)} |-> Url_2]}]
    \cup [dir : {<<"Q", "?">>, <<"Q", "_">>}, files : {<< >>}]

InitLink ==
    /\ sIn = <<>>
    /\ sOut = <<>>
    /\ ledger = <<>>
    /\ \E old \in SUBSET OldDirs :
          /\ \A a, b \in old : a.dir = b.dir => a = b
          /\ disk = [d \in {o.dir : o \in old} |-> (CHOOSE o \in old : o.dir = d).files]
    /\ playlist = <<>>
    /\ now = StartTime
    /\ pc = "ready"
    /\ run = 1
    /\ stats = NoStats
    /\ pre = [ledger |-> <<>>, disk |-> disk, op |-> "none"]
    /\ snap = <<>>
    /\ files_to_remove = {}

\* One run of the extractor up to the writing of the link file: disk is
\* base_music_path, sOut the URL, the name and the directories of the run.
ExtractorRun ==
    /\ pc = "ready"
    /\ run <= MaxRuns
    /\ \E u \in UrlPool, playlist_name \in PlaylistNames, order \in Enumerations(DOMAIN disk) :
          \E r \in {select_playlist_dir(disk, order, clean_playlist_url(strip(u)), playlist_name)} :
             /\ disk' = r.base
             /\ sOut' = [url |-> clean_playlist_url(strip(u)), name |-> playlist_name,
                         matching_dir |-> r.matching_dir, playlist_dir |-> r.playlist_dir]
             /\ pc' = outcome(r.raised, "ready")
    /\ run' = run + 1
    /\ pre' = [ledger |-> ledger, disk |-> disk, op |-> "run"]
    /\ UNCHANGED <<sIn, ledger, playlist, now, stats, snap, files_to_remove>>

SpecLink == InitLink /\ [][ExtractorRun]_vars

-----------------------------------------------------------------------------
(* Claims                                                                  *)

\* The number of times each line occurs in a file.
Occurrences(q) == [x \in Range(q) |-> Cardinality({i \in 1..Len(q) : q[i] = x})]

Returned(op) == pc = "returned" /\ pre.op = op

\* C1: when the full pass (cleanup, reconcile, restricted update, variant
\* promotion) has run twice in succession, the ledger file after the second
\* run is identical to the one after the first run, and the second run
\* reports added = 0, flipped = 0, deduped = 0 and dropped_orphans = 0.
C1_SecondPassChangesNothing ==
    pc = "done" =>
        /\ ledger = snap
        /\ stats.added = 0
        /\ stats.flipped = 0
        /\ stats.deduped = 0
        /\ stats.dropped_orphans = 0

\* C2: after maybe_update_song_ids_from_playlist_existing_only, every row of
\* an Identity Key that had rows before carries an id that a row of that key
\* carried before: the restricted update changes no existing remote id.
C2_NoChurn ==
    Returned("update") =>
        LET before == _read_song_ids_rows(pre.ledger)
        IN  \A j \in 1..Len(ledger) :
                (\E i \in 1..Len(before) : RowKey(before[i]) = RowKey(ledger[j]))
                => \E i \in 1..Len(before) :
                      /\ RowKey(before[i]) = RowKey(ledger[j])
                      /\ before[i].id = ledger[j].id

\* C3: in the dedup of reconcile_song_ids_flip_ids, when several rows share
\* one filename and exactly one of them carries the current playlist id of
\* its Identity Key, the row that survives for that filename is that row's
\* id, whatever the order of the rows and their timestamps.
C3_DedupKeepsWantedId ==
    Returned("reconcile") =>
        LET rows == reconcile_add_flip(pre.ledger, pre.disk, playlist, now).rows
            pl == PlaylistView(playlist)
            wanted(i) == /\ WantedId(pl, RowKey(rows[i])) # ""
                         /\ rows[i].id = WantedId(pl, RowKey(rows[i]))
            group(i) == {j \in 1..Len(rows) : rows[j].fname = rows[i].fname}
        IN  \A i \in 1..Len(rows) :
                (/\ Cardinality(group(i)) >= 2
                 /\ wanted(i)
                 /\ \A j \in group(i) : j # i => ~wanted(j))
                => \A k \in 1..Len(ledger) :
                      ledger[k].fname = rows[i].fname => ledger[k].id = rows[i].id

\* The numbered-suffix variants of a canonical name: the canonical base, an
\* underscore, digits, and the extension.
NumberedVariants(names, canon) ==
    LET stem == SubSeq(canon, 1, Len(canon) - 4)
    IN  {f \in names : /\ Len(f) > Len(canon) + 1
                       /\ SubSeq(f, 1, Len(stem) + 1) = stem \o <<"_">>
                       /\ casefold(SubSeq(f, Len(f) - 3, Len(f))) = MP3
                       /\ \A i \in (Len(stem) + 2)..(Len(f) - 4) : IsDigit(f[i])}

\* C4: rename_single_variant_to_canonical gives a file a new name only when
\* the new name is a canonical name of the playlist that was absent, the
\* file was a numbered-suffix variant of that name, and it was the only
\* numbered-suffix variant of that name in the directory.
C4_OnlySingleNumberedVariantRenamed ==
    Returned("rename") =>
        \A new \in DOMAIN disk : \A old \in DOMAIN pre.disk :
            (pre.disk[old] = disk[new] /\ old # new)
            => /\ new \in ExpectedCanon(playlist)
               /\ new \notin DOMAIN pre.disk
               /\ NumberedVariants(DOMAIN pre.disk, new) = {old}

\* C5 as stated: cleanup_song_ids_orphans keeps exactly the well-formed rows
\* whose filename field is the name of an .mp3 file of the directory, writes
\* exactly these rows, and returns their number as kept and the number of
\* the other well-formed rows as dropped_orphans.
C5_KeepsRowsByFilenameField ==
    Returned("cleanup") =>
        LET rows == SelectSeq(pre.ledger, LAMBDA l : l.wf)
            keep == SelectSeq(rows, LAMBDA r : r.fname \in DOMAIN pre.disk /\ IsMp3Name(r.fname))
        IN  /\ Occurrences(ledger) = Occurrences(keep)
            /\ stats.kept = Len(keep)
            /\ stats.dropped_orphans = Len(rows) - Len(keep)

\* The name a row stands for: its filename field, or "artist - title.mp3"
\* when the field is empty.
C5_NameOf(r) == IF r.fname = <<>> THEN r.artist \o SEP \o r.title \o MP3 ELSE r.fname

\* C5 amended: cleanup_song_ids_orphans keeps exactly the well-formed rows
\* whose filename field, or "artist - title.mp3" when that field is empty,
\* is the name of an .mp3 file of the directory; it writes exactly these
\* rows, an empty filename field filled with that name, and returns their
\* number as kept and the number of the other well-formed rows as
\* dropped_orphans.
C5_KeepsRowsOfPresentFiles ==
    Returned("cleanup") =>
        LET rows == SelectSeq(pre.ledger, LAMBDA l : l.wf)
            keep == SelectSeq(rows, LAMBDA r :
                        C5_NameOf(r) \in DOMAIN pre.disk /\ IsMp3Name(C5_NameOf(r)))
            written == [i \in 1..Len(keep) |-> [keep[i] EXCEPT !.fname = C5_NameOf(keep[i])]]
        IN  /\ Occurrences(ledger) = Occurrences(written)
            /\ stats.kept = Len(keep)
            /\ stats.dropped_orphans = Len(rows) - Len(keep)
            /\ stats.kept + stats.dropped_orphans = Len(rows)

\* C5 witness: a cleanup that kept a row and dropped a row, one of the kept
\* rows having had an empty filename field.
C5_Witness ==
    /\ Returned("cleanup")
    /\ stats.kept >= 1
    /\ stats.dropped_orphans >= 1
    /\ \E i \in 1..Len(pre.ledger) :
          /\ pre.ledger[i].wf
          /\ pre.ledger[i].fname = <<>>
          /\ C5_NameOf(pre.ledger[i]) \in DOMAIN pre.disk

\* C6: after orphan cleanup followed by reconcile_song_ids_flip_ids, no two
\* rows of the ledger have the same filename.
C6_OneRowPerFilename ==
    (pc = "update" /\ pre.op = "reconcile") =>
        \A i, j \in 1..Len(ledger) : ledger[i].fname = ledger[j].fname => i = j

\* C6 witness: the reconcile step of a pass started from a ledger in which
\* two rows had the same filename, and removed one of them.
C6_Witness ==
    /\ pc = "update"
    /\ pre.op = "reconcile"
    /\ \E i, j \in 1..Len(pre.ledger) : i # j /\ pre.ledger[i].fname = pre.ledger[j].fname
    /\ Len(ledger) < Len(pre.ledger)

\* The files the cleanup steps are to spare: a recognised variant spelling
\* of a manifest entry, or a manifest entry with a numeric suffix.
C7_Protected(f) ==
    \E e \in expected_names(playlist) :
        f \in get_possible_filenames(e) \/ NumberedVariants({f}, e) = {f}

\* C7: cleanup_non_matching_files, phase 1 and the final cleanup of phase 2
\* delete no .mp3 file that is a numbered-suffix variant of a playlist track
\* or a recognised variant spelling of a manifest entry: every such file of
\* the directory before the step is still in the directory after it.
C7_CleanupSparesVariants ==
    pre.op \in {"cleanup_non_matching_files", "phase1", "final_cleanup"} =>
        \A f \in DOMAIN pre.disk :
            (IsMp3Name(f) /\ C7_Protected(f))
            => \E g \in DOMAIN disk : disk[g] = pre.disk[f]

\* C8: in no step of an extractor run is an ambiguity resolved: when two or
\* more numbered-suffix variants of a manifest entry are in the directory
\* before a step and the canonical file is absent, all of them are still
\* there, under their names, after the step.
C8_AmbiguityLeftAlone ==
    pre.op # "none" =>
        \A e \in expected_names(playlist) :
            (/\ Cardinality(NumberedVariants(DOMAIN pre.disk, e)) >= 2
             /\ e \notin DOMAIN pre.disk)
            => \A v \in NumberedVariants(DOMAIN pre.disk, e) :
                  v \in DOMAIN disk /\ disk[v] = pre.disk[v]

\* C9: sanitize_filename is idempotent: sanitizing its result again gives
\* the same string.
C9_SanitizeIdempotent == Len(sOut) = 2 => sOut[2] = sOut[1]

\* C9 witness: a string that starts with a reserved device name has been
\* sanitized twice, and the first application changed it.
C9_Witness ==
    /\ Len(sOut) = 2
    /\ ReservedPrefixLen(sIn) > 0
    /\ sOut[1] # sIn

\* The characters the specification and the docstring list as replaced.
C10_ListedChars == {"/", "#", ":", "|", "<", ">", "\"", ",", "?", "!", CTRL}

\* C10: the result of sanitize_filename contains none of the characters
\* / # : | < > " , ? ! and no control character.
C10_NoListedCharLeft ==
    Len(sOut) >= 1 => \A i \in 1..Len(sOut[1]) : sOut[1][i] \notin C10_ListedChars

\* A string with every letter in lower case and every composed letter written
\* as the letter and its marks; C11_Plain removes the surrounding whitespace
\* first.  Two strings that differ only by surrounding whitespace, by letter
\* case or by Unicode form have the same C11_Plain.
RECURSIVE C11_Expand(_)
C11_Expand(t) ==
    IF t = <<>> THEN <<>>
    ELSE (CASE Head(t) \in {"e'", "E'"} -> <<"e", "'">>
            [] Head(t) = "E" -> <<"e">>
            [] Head(t) = "U+0399" -> <<"U+03B9">>
            [] Head(t) \in {"U+038A", "U+03AF"} -> <<"U+03B9", "'">>
            [] Head(t) \in {"U+03AA", "U+03CA"} -> <<"U+03B9", "U+0308">>
            [] Head(t) = "U+0390" -> <<"U+03B9", "U+0308", "'">>
            [] OTHER -> <<Head(t)>>) \o C11_Expand(Tail(t))

C11_Plain(s) == C11_Expand(strip(s))

\* C11: two (artist, title) pairs that differ only by leading or trailing
\* whitespace, by letter case, or by composed versus decomposed Unicode form
\* get equal keys from _norm_key.
C11_EquivalentPairsEqualKeys ==
    pc = "keyed" =>
        ((C11_Plain(sIn[1][1]) = C11_Plain(sIn[2][1]) /\ C11_Plain(sIn[1][2]) = C11_Plain(sIn[2][2]))
         => sOut[1] = sOut[2])

\* The canonical filename of a track record: sanitize(artist - title).mp3.
CanonicalFilename(t) == sanitize_filename(t.artist \o SEP \o t.title) \o MP3

\* C12: after reconcile_song_ids_flip_ids, for every track of the playlist
\* whose canonical filename, sanitize(artist - title).mp3, is a file of the
\* directory, the ledger holds a row with that filename or with the track's
\* Identity Key.
C12_RowForEveryPresentTrack ==
    Returned("reconcile") =>
        \A n \in 1..Len(playlist) :
            CanonicalFilename(playlist[n]) \in DOMAIN pre.disk
            => \E j \in 1..Len(ledger) :
                  \/ ledger[j].fname = CanonicalFilename(playlist[n])
                  \/ RowKey(ledger[j]) = _norm_key(playlist[n].artist, playlist[n].title)

\* C13: reconcile_song_ids_flip_ids rewrites no row with the id of a track of
\* another Identity Key: every row of the written ledger that is not a row
\* of the ledger as it was carries the key and the id of one track of the
\* playlist, and the current time.
C13_OnlyOwnTrackChangesRow ==
    Returned("reconcile") =>
        \A j \in 1..Len(ledger) :
            ledger[j] \notin Range(pre.ledger)
            => /\ \E n \in 1..Len(playlist) :
                     /\ _norm_key(playlist[n].artist, playlist[n].title) = RowKey(ledger[j])
                     /\ playlist[n].id = ledger[j].id
               /\ ledger[j].ts = strftime(now)

\* C13 witness: a row of another track was matched, by its filename, to a
\* track whose file is in the directory and whose id differs, and the row
\* is in the written ledger as it was.
C13_Witness ==
    /\ Returned("reconcile")
    /\ \E i \in 1..Len(pre.ledger) : \E n \in 1..Len(playlist) :
          /\ pre.ledger[i].fname = playlist[n].artist \o SEP \o playlist[n].title \o MP3
          /\ pre.ledger[i].fname \in DOMAIN pre.disk
          /\ RowKey(pre.ledger[i]) # _norm_key(playlist[n].artist, playlist[n].title)
          /\ pre.ledger[i].id # playlist[n].id
          /\ pre.ledger[i] \in Range(ledger)

\* The row the add / flip loop matches to the entry cur of the playlist view
\* in the rows as they were read: by filename, else by Identity Key; 0 when
\* there is none.
C14_Matched(rows, cur) ==
    IF cur.fname \in DOMAIN IndexByFname(rows) THEN IndexByFname(rows)[cur.fname]
    ELSE IF cur.key \in DOMAIN IndexByKey(rows) THEN IndexByKey(rows)[cur.key]
    ELSE 0

\* The entries of the playlist view whose file is in the directory and whose
\* matched row has their Identity Key and another id.
C14_Stale ==
    LET rows == _read_song_ids_rows(pre.ledger)
        pl == PlaylistView(playlist)
    IN  {n \in 1..Len(pl) :
            /\ is_file(pre.disk, pl[n].fname)
            /\ C14_Matched(rows, pl[n]) # 0
            /\ RowKey(rows[C14_Matched(rows, pl[n])]) = pl[n].key
            /\ rows[C14_Matched(rows, pl[n])].id # pl[n].id}

\* C14: when a track's file is in the directory and the row matched for the
\* track has the track's Identity Key and another id, reconcile counts a
\* flip for it.
C14_StaleRowIsFlipped ==
    Returned("reconcile") => stats.flipped >= Cardinality(C14_Stale)

\* C15: in the dedup of reconcile_song_ids_flip_ids, when the rows of one
\* filename hold a row with a well-formed timestamp and none of them carries
\* the wanted id of its key, the row that survives for the filename has a
\* well-formed timestamp: an unparsable timestamp never wins.
C15_UnparsedStampNeverWins ==
    Returned("reconcile") =>
        LET rows == reconcile_add_flip(pre.ledger, pre.disk, playlist, now).rows
            pl == PlaylistView(playlist)
            wanted(i) == /\ WantedId(pl, RowKey(rows[i])) # ""
                         /\ rows[i].id = WantedId(pl, RowKey(rows[i]))
            group(f) == {i \in 1..Len(rows) : rows[i].fname = f}
        IN  \A i \in 1..Len(rows) :
                (/\ rows[i].ts.dt # 0
                 /\ \A j \in group(rows[i].fname) : ~wanted(j))
                => \A k \in 1..Len(ledger) :
                      ledger[k].fname = rows[i].fname => ledger[k].ts.dt # 0

\* C16: on a directory without a ledger file no engine call raises, and each
\* call leaves what it leaves on an empty ledger: cleanup writes an empty
\* file and returns kept = 0 and dropped_orphans = 0, reconcile and the
\* restricted update write the rows they write for an empty ledger.
C16_MissingLedgerReadAsEmpty ==
    /\ pc # "raised"
    /\ (pc = "returned" /\ pre.ledger = NoFile) =>
          /\ pre.op = "cleanup" =>
                ledger = <<>> /\ stats.kept = 0 /\ stats.dropped_orphans = 0
          /\ pre.op = "reconcile" =>
                /\ ledger = reconcile_song_ids_flip_ids(<<>>, pre.disk, playlist, now).file
                /\ Len(ledger) = stats.added
          /\ pre.op = "update" =>
                touch(ledger) \in maybe_update_song_ids_from_playlist_existing_only(
                                     <<>>, pre.disk, playlist, build_existing_keys_set(pre.disk), now)

\* C16 witness: the restricted update has run on a directory without a
\* ledger file and has written one with a row.
C16_Witness ==
    /\ pc = "returned"
    /\ pre.ledger = NoFile
    /\ pre.op = "update"
    /\ ledger # NoFile
    /\ Len(ledger) >= 1

\* C17: after the restricted update has returned, every row that was in the
\* ledger before the call is still in it with the same five fields, also when
\* several rows shared an Identity Key.
C17_UpdateKeepsEveryPriorRow ==
    (pc = "returned" /\ pre.op = "update") =>
        \A i \in 1..Len(pre.ledger) :
            pre.ledger[i].wf => \E j \in 1..Len(ledger) : ledger[j] = pre.ledger[i]

\* The rows of a ledger file that have the Identity Key of row r.
C18_Group(file, r) ==
    {i \in 1..Len(file) : file[i].wf /\ RowKey(file[i]) = RowKey(r)}

\* C18: when the restricted update has rewritten the ledger, a row whose
\* Identity Key had rows before carries the timestamp of one of them, and
\* none of them is earlier; a row carries the current time only when its
\* Identity Key had no row before.
C18_EarliestTimestampKept ==
    (pc = "returned" /\ pre.op = "update" /\ ledger # pre.ledger) =>
        \A j \in 1..Len(ledger) :
            LET before == C18_Group(pre.ledger, ledger[j])
            IN  IF before = {}
                THEN ledger[j].ts = strftime(now)
                ELSE /\ \E i \in before : pre.ledger[i].ts = ledger[j].ts
                     /\ \A i \in before : ledger[j].ts.dt <= pre.ledger[i].ts.dt
                     /\ ledger[j].ts # strftime(now)

\* C18 witness: the update has rewritten a ledger in which one Identity Key
\* had two rows with different timestamps.
C18_Witness ==
    /\ pc = "returned"
    /\ pre.op = "update"
    /\ ledger # pre.ledger
    /\ \E i, j \in 1..Len(pre.ledger) :
          /\ pre.ledger[i].wf /\ pre.ledger[j].wf
          /\ RowKey(pre.ledger[i]) = RowKey(pre.ledger[j])
          /\ pre.ledger[i].ts.dt < pre.ledger[j].ts.dt

\* A pass has ended: its variant promotion has returned.
C19_PassEnded == pre.op = "rename" /\ (pc = "done" \/ (pc = "cleanup" /\ run = 2))

\* C19: at the end of a pass the filename of every ledger row is the name of
\* a file of the directory, also after a promotion has renamed a variant.
C19_RowsNamePresentFiles ==
    C19_PassEnded =>
        \A i \in 1..Len(ledger) : ledger[i].wf => ledger[i].fname \in DOMAIN disk

\* The files a batch has to rename or delete, from the state it started in.
C20_Items ==
    CASE pre.op = "rename_batch" ->
           UNION {VariantsOf(pre.disk, c) : c \in {x \in ExpectedCanon(playlist) : promotes(pre.disk, x)}}
      [] pre.op = "remove_batch" -> non_matching_files(pre.disk, playlist)
      [] pre.op = "unlink_batch" -> sIn.leftover_songs \cap DOMAIN pre.disk
      [] OTHER -> {}

\* C20: a batch on a filesystem that refuses some operations does not raise:
\* it returns having attempted every file it had to rename or delete, each
\* once; the files whose operation was not refused are renamed or deleted,
\* and the refused ones are still in place.
C20_BatchAttemptsEveryItem ==
    /\ pc # "raised"
    /\ (pc = "returned" /\ pre.op \in {"rename_batch", "remove_batch", "unlink_batch"}) =>
          /\ Range(sOut) = C20_Items
          /\ Len(sOut) = Cardinality(C20_Items)
          /\ \A f \in C20_Items : f \in DOMAIN disk <=> f \in sIn.refused

\* C20 witness: a batch has returned after the operation on one file was
\* refused and a later file of the batch was renamed or deleted.
C20_Witness ==
    /\ pc = "returned"
    /\ pre.op \in {"rename_batch", "remove_batch", "unlink_batch"}
    /\ \E i, j \in 1..Len(sOut) :
          /\ i < j
          /\ sOut[i] \in sIn.refused
          /\ sOut[j] \notin sIn.refused
          /\ sOut[j] \notin DOMAIN disk

\* The name is the sanitized form of a reference of some manifest: of a line
\* that is not blank and does not begin with "#".
C21_Referenced(name) ==
    \E m \in sIn.manifests : \E i \in 1..Len(m) :
        /\ strip(m[i]) # <<>>
        /\ ~StartsWith(m[i], <<"#">>)
        /\ sanitize_filename(strip(m[i])) = name

C21_InLocal(name) == \E f \in sIn.local : glob_mp3(f) /\ sanitize_filename(f) = name

\* The two sets returned for the library files `songs`.
C21_Returned(songs) ==
    /\ sOut.orphans = {n \in {sanitize_filename(f) : f \in songs} : ~C21_Referenced(n)}
    /\ sOut.leftovers = {n \in sOut.orphans : ~C21_InLocal(n)}
    /\ sOut.leftovers \subseteq sOut.orphans
    /\ \A n \in sOut.orphans : ~C21_Referenced(n)
    /\ \A n \in sOut.leftovers : ~C21_InLocal(n)

\* C21 (as stated): check_orphan_and_leftover_songs returns orphans = the
\* sanitized names of the .mp3 files of the library minus the sanitized
\* references of all manifests, and leftovers = orphans minus the sanitized
\* names of the .mp3 files of the local-files collection; leftovers is a
\* subset of orphans, no orphan is referenced and no leftover is in the
\* local-files collection.
C21_OrphansOfAllLibraryFiles ==
    pc = "checked" => C21_Returned({f \in DOMAIN disk : glob_mp3(f)})

\* C21 (amended): the same, the library files whose names begin with "._"
\* being left out of the library's side of the difference.
C21_OrphansOfVisibleLibraryFiles ==
    pc = "checked" => C21_Returned({f \in DOMAIN disk : glob_mp3(f) /\ ~IsAppleDouble(f)})

\* A check that returns an orphan whose sanitized name is not the name of the
\* file, with a leftover, an orphan that is no leftover, a referenced file
\* and a "._" file in the library.
C21_Witness ==
    /\ pc = "checked"
    /\ File_XYu \in sOut.orphans /\ File_XYq \in DOMAIN disk /\ File_XYu \notin DOMAIN disk
    /\ sOut.leftovers # {} /\ sOut.leftovers # sOut.orphans
    /\ File_AT \in DOMAIN disk /\ File_AT \notin sOut.orphans
    /\ File_AppleDouble \in DOMAIN disk

\* The files the call has deleted.
C22_Deleted == DOMAIN pre.disk \ DOMAIN disk

\* C22: remove_leftover_songs deletes no file unless auto_confirm is set or
\* the answer to the prompt (surrounding blanks and the case of the letter
\* set aside) is "y"; the files it deletes are files of library_dir whose
\* names are in the set it was given, and the other files stay as they were.
C22_DeletesOnlyConfirmedLeftovers ==
    pc = "removed" =>
        /\ C22_Deleted # {} =>
              \/ sIn.auto_confirm
              \/ sIn.answer \in {<<"y">>, <<" ", "Y", " ">>}
        /\ C22_Deleted \subseteq snap
        /\ \A f \in DOMAIN disk : f \in DOMAIN pre.disk /\ disk[f] = pre.disk[f]

\* A call that deletes a leftover after the answer " Y ", and one that
\* deletes nothing after another answer, is told apart from this one by the
\* answer: here files were deleted without auto_confirm.
C22_Witness ==
    /\ pc = "removed"
    /\ ~sIn.auto_confirm
    /\ C22_Deleted # {}
    /\ DOMAIN disk # {}
    /\ snap \ DOMAIN pre.disk # {}

\* C23: for every filename x, the set returned by get_possible_filenames(x)
\* contains x and the sanitized form of x.
C23_VariantsHoldSanitizedForm ==
    pc = "returned" => sIn \in snap /\ sOut \in snap

\* (case-folded artist, case-folded title) of r is not after that of q.
C24_NotAfter(r, q) ==
    \/ StrLess(casefold(r.artist), casefold(q.artist))
    \/ /\ casefold(r.artist) = casefold(q.artist)
       /\ ~StrLess(casefold(q.title), casefold(r.title))

C24_Ordered(file) ==
    \A i, j \in 1..Len(file) : i < j => C24_NotAfter(file[i], file[j])

\* The call that has returned has written the ledger: cleanup and reconcile
\* always do, the restricted update does when its diff is not empty.
C24_Rewritten ==
    /\ pc = "returned"
    /\ \/ pre.op \in {"cleanup", "reconcile"}
       \/ /\ pre.op = "update"
          /\ diff_song_ids_vs_playlist_existing_only(
                 pre.ledger, playlist, build_existing_keys_set(pre.disk), now) # <<>>

\* C24: every rewrite of the ledger, by cleanup_song_ids_orphans,
\* reconcile_song_ids_flip_ids and
\* apply_song_ids_from_playlist_existing_only, emits the rows in
\* non-decreasing order of (case-folded artist, case-folded title), whatever
\* the order of the rows read.
C24_RewriteIsSorted == C24_Rewritten => C24_Ordered(ledger)

\* A cleanup that has rewritten a ledger whose two well-formed rows were
\* read in decreasing order, and has written them both.
C24_Witness ==
    /\ C24_Rewritten
    /\ pre.op = "cleanup"
    /\ Len(pre.ledger) = 2 /\ pre.ledger[1].wf /\ pre.ledger[2].wf
    /\ ~C24_Ordered(pre.ledger)
    /\ Len(ledger) >= 2
    /\ casefold(ledger[1].artist) # casefold(ledger[Len(ledger)].artist)

\* C25: no function exported by song_ids_manager creates, renames or deletes
\* a music file: when an exported call has returned, the directory holds the
\* files it held before the call, each with its content (only the .song_ids
\* file may have been written).
C25_ExportedCallsLeaveMusicFiles ==
    pc = "returned" => disk = pre.disk

\* The Identity Key of a diff entry.
C26_Key(e) == _norm_key(e.artist, e.song)

\* A ledger row that is complete: it has an id, an artist and a title.
C26_Complete(r) == r.wf /\ r.id # "" /\ r.artist # <<>> /\ r.title # <<>>

\* C26: every entry returned by diff_song_ids_vs_playlist_existing_only is a
\* pure addition: its old_id is null, its reason is "new_existing_file", its
\* Identity Key belongs to restrict_keys and to the playlist, and no complete
\* row of the ledger has that Identity Key.
C26_DiffIsPureAddition ==
    pc = "returned" =>
        \A n \in 1..Len(sOut) :
            /\ sOut[n].old_id = ""
            /\ sOut[n].reason = "new_existing_file"
            /\ C26_Key(sOut[n]) \in sIn
            /\ \E i \in 1..Len(playlist) :
                  _norm_key(_nfc(playlist[i].artist), _nfc(playlist[i].title)) = C26_Key(sOut[n])
            /\ \A j \in 1..Len(ledger) :
                  C26_Complete(ledger[j]) =>
                      _norm_key(_nfc(ledger[j].artist), _nfc(ledger[j].title)) # C26_Key(sOut[n])

\* A diff with an entry for a key of which the ledger holds a row without an
\* id, next to the complete row of another key that is in restrict_keys and
\* in the playlist and gets no entry.
C26_Witness ==
    /\ pc = "returned"
    /\ Len(sOut) = 1
    /\ Len(playlist) = 2
    /\ Cardinality(sIn) = 2
    /\ \E j \in 1..Len(ledger) :
          /\ ledger[j].wf /\ ledger[j].id = ""
          /\ _norm_key(ledger[j].artist, ledger[j].title) = C26_Key(sOut[1])
    /\ \E j \in 1..Len(ledger) : C26_Complete(ledger[j])

\* The lines of a manifest that are not blank, stripped.
C27_Lines(file) ==
    SelectSeq([i \in 1..Len(file) |-> strip(file[i])], LAMBDA l : l # <<>>)

\* Extended format: the header, then metadata lines and file references in
\* turn.
C27_Extended(lines) ==
    /\ Len(lines) % 2 = 1
    /\ lines[1] = EXTM3U
    /\ \A k \in 1..(Len(lines) \div 2) :
          /\ StartsWith(lines[2 * k], EXTINF)
          /\ ~StartsWith(lines[2 * k + 1], <<"#">>)

\* The file references of the lines, each once, in the order in which they
\* first occur.
C27_References(lines) ==
    LET refs == SelectSeq(lines, LAMBDA l : ~StartsWith(l, <<"#">>))
        firsts == {i \in 1..Len(refs) : \A j \in 1..(i - 1) : refs[j] # refs[i]}
    IN  [n \in 1..Cardinality(firsts) |->
            refs[CHOOSE i \in firsts : Cardinality({j \in firsts : j <= i}) = n]]

\* C27: for a manifest in extended format, get_valid_songs_from_m3u skips the
\* metadata lines and returns exactly the file references, each once, in
\* first-occurrence order; its result holds no line that starts with "#".
C27_ExtendedManifestGivesReferences ==
    pc = "returned" /\ C27_Extended(C27_Lines(sIn)) =>
        /\ sOut = C27_References(C27_Lines(sIn))
        /\ \A n \in 1..Len(sOut) : ~StartsWith(sOut[n], <<"#">>)

\* C28: the deduped count returned by reconcile_song_ids_flip_ids is the
\* number of rows the deduplication by filename has removed: the well-formed
\* rows read plus the rows added, minus the rows written.
C28_DedupedCountsRemovedRows ==
    pc = "returned" /\ pre.op = "reconcile" =>
        stats.deduped = Len(SelectSeq(pre.ledger, LAMBDA l : l.wf)) + stats.added - Len(ledger)

\* C29: rename_single_variant_to_canonical never renames a file onto a name
\* that exists in the directory, also when several expected canonical names
\* share one case-folded base and earlier renames of the call have changed
\* the directory: the directory holds as many files after the call as
\* before, and every content it held is still there.
C29_RenameLosesNoFile ==
    pc = "returned" /\ pre.op = "rename" =>
        /\ Cardinality(DOMAIN disk) = Cardinality(DOMAIN pre.disk)
        /\ {disk[f] : f \in DOMAIN disk} = {pre.disk[f] : f \in DOMAIN pre.disk}

\* A call with two expected canonical names of one case-folded base, neither
\* of them in the directory, that has renamed the single variant of the base
\* next to another file.
C29_Witness ==
    /\ pc = "returned" /\ pre.op = "rename"
    /\ Cardinality({casefold(c) : c \in ExpectedCanon(playlist)}) = 1
    /\ Cardinality(ExpectedCanon(playlist)) = 2
    /\ ExpectedCanon(playlist) \cap DOMAIN pre.disk = {}
    /\ DOMAIN disk # DOMAIN pre.disk
    /\ Cardinality(DOMAIN disk) = 2

\* The directory d of the music directory b holds the link file that
\* create_hidden_playlist_link_file writes for the URL u.
C30_LinkWritten(b, d, u) ==
    /\ HiddenName(d) \in DOMAIN b[d]
    /\ \E name \in PlaylistNames :
          /\ sanitize_filename(name) = d
          /\ b[d][HiddenName(d)] = <<"#", " ">> \o name \o <<NL>> \o u

\* C30: after create_hidden_playlist_link_file has written the link file of
\* a playlist directory for the URL u, a later run for the same URL finds
\* that directory with find_matching_playlist_dir.
C30_LinkRoundTrip ==
    pc = "ready" /\ pre.op = "run" =>
        \A d \in DOMAIN pre.disk :
            C30_LinkWritten(pre.disk, d, sOut.url) => sOut.matching_dir = d

=============================================================================
